---- MODULE Spec2Model ----
(***************************************************************************)
(* Model of the Slack message edge component: the wasi:http adapter        *)
(* (helpers::run_json, helpers::run, ResponseOutparam::send and ::error),  *)
(* the settings extractor (Settings::new), the relay handler               *)
(* (Component::handle_json_request), the body codecs (helpers::body), the  *)
(* body readers (IncomingBody::read, parse_body) and the ResponseBuilder   *)
(* of src/helpers.rs.                                                      *)
(*                                                                         *)
(* Byte buffers are sequences of lexical tokens: a token is a record       *)
(* [k, s] with k the kind (punct, str, num, lit, ws, raw) and s its text.  *)
(* In-memory JSON values (serde_json::Value) are records [t, s, a, m]: t   *)
(* the type tag, s the scalar text, a the array elements, m the object     *)
(* members as a set of <<key, value>> pairs (at most one pair per key).    *)
(***************************************************************************)
EXTENDS Integers, Sequences, FiniteSets, TLC

VARIABLES
    pc,          \* position of the invocation inside run_json / send
    request,     \* the host's IncomingRequest
    handler,     \* the handler closure run_json was given
    http_req,    \* result of IncomingRequest -> http::Request
    value,       \* result of IncomingBody::read_json
    settings,    \* result of Settings::from_req inside the handler
    result,      \* the handler's Result<http::Response<O>>
    res,         \* the http::Response<Bytes> handed to ResponseOutparam::send
    posts,       \* outbound POSTs issued so far
    outparam,    \* values assigned to the ResponseOutparam, in order
    wire,        \* the outgoing body resource: bytes written, stream, finish
    codec,       \* scratch of the codec operations (helpers::body)
    reader,      \* the body-read loop: stream position, buffer, result
    response_builder  \* the ResponseBuilder of src/helpers.rs

vars == <<pc, request, handler, http_req, value, settings, result, res,
          posts, outparam, wire, codec, reader, response_builder>>

(***************************************************************************)
(* Option and generic helpers                                              *)
(***************************************************************************)
Some(x) == [some |-> TRUE, v |-> x]

None == [some |-> FALSE, v |-> ""]

(***************************************************************************)
(* Tokens                                                                  *)
(***************************************************************************)
Tok(k, s) == [k |-> k, s |-> s]

P(s) == Tok("punct", s)

S(s) == Tok("str", s)

N(s) == Tok("num", s)

L(s) == Tok("lit", s)

W == Tok("ws", " ")

Raw(s) == Tok("raw", s)

(***************************************************************************)
(* serde_json::Value                                                       *)
(***************************************************************************)
JNull == [t |-> "null", s |-> "", a |-> <<>>, m |-> {}]

JBool(b) == [t |-> "bool", s |-> IF b THEN "true" ELSE "false", a |-> <<>>, m |-> {}]

JNum(s) == [t |-> "num", s |-> s, a |-> <<>>, m |-> {}]

JStr(s) == [t |-> "str", s |-> s, a |-> <<>>, m |-> {}]

JArr(a) == [t |-> "arr", s |-> "", a |-> a, m |-> {}]

JObj(m) == [t |-> "obj", s |-> "", a |-> <<>>, m |-> m]

\* Map::insert: a later member replaces an earlier one with the same key.
MapInsert(m, key, v) == {p \in m : p[1] # key} \cup {<<key, v>>}

MapHas(m, key) == \E p \in m : p[1] = key

MapGet(m, key) == (CHOOSE p \in m : p[1] = key)[2]

\* Value::get(&str): Some(member) on an object holding the key, else None.
ValueGet(v, key) ==
    IF v.t = "obj" /\ MapHas(v.m, key) THEN Some(MapGet(v.m, key)) ELSE None

(***************************************************************************)
(* serde_json deserializer: tokens -> Value                                *)
(***************************************************************************)
SkipWs(toks) == SelectSeq(toks, LAMBDA tk : tk.k # "ws")

\* The result of reading one value: val is the value, next the position
\* after it, members the members of val as <<key, value>> pairs in the order
\* read, repeated keys included, when val is an object.
PFail == [ok |-> FALSE, val |-> JNull, next |-> 0, members |-> <<>>]

POk(v, n) == [ok |-> TRUE, val |-> v, next |-> n, members |-> <<>>]

IsPunct(toks, i, s) == i <= Len(toks) /\ toks[i] = P(s)

RECURSIVE ParseValue(_, _)
RECURSIVE ParseElems(_, _, _)
RECURSIVE ParseMembers(_, _, _, _)

\* Elements after "[" or ",": toks[i] starts a value.
ParseElems(toks, i, acc) ==
    LET e == ParseValue(toks, i) IN
    IF ~e.ok THEN PFail
    ELSE IF IsPunct(toks, e.next, ",") THEN ParseElems(toks, e.next + 1, Append(acc, e.val))
    ELSE IF IsPunct(toks, e.next, "]") THEN POk(JArr(Append(acc, e.val)), e.next + 1)
    ELSE PFail

\* Members after "{" or ",": toks[i] must be a key.  acc is the map built
\* so far, read the members read so far.
ParseMembers(toks, i, acc, read) ==
    IF ~(i + 1 <= Len(toks) /\ toks[i].k = "str" /\ toks[i + 1] = P(":")) THEN PFail
    ELSE LET e == ParseValue(toks, i + 2) IN
         IF ~e.ok THEN PFail
         ELSE LET acc2 == MapInsert(acc, toks[i].s, e.val)
                  read2 == Append(read, <<toks[i].s, e.val>>) IN
              IF IsPunct(toks, e.next, ",") THEN ParseMembers(toks, e.next + 1, acc2, read2)
              ELSE IF IsPunct(toks, e.next, "}")
              THEN [POk(JObj(acc2), e.next + 1) EXCEPT !.members = read2]
              ELSE PFail

ParseValue(toks, i) ==
    IF i > Len(toks) THEN PFail
    ELSE LET tk == toks[i] IN
         CASE tk.k = "lit" /\ tk.s = "null" -> POk(JNull, i + 1)
           [] tk.k = "lit" /\ tk.s = "true" -> POk(JBool(TRUE), i + 1)
           [] tk.k = "lit" /\ tk.s = "false" -> POk(JBool(FALSE), i + 1)
           [] tk.k = "num" -> POk(JNum(tk.s), i + 1)
           [] tk.k = "str" -> POk(JStr(tk.s), i + 1)
           [] tk = P("[") ->
                IF IsPunct(toks, i + 1, "]") THEN POk(JArr(<<>>), i + 2)
                ELSE ParseElems(toks, i + 1, <<>>)
           [] tk = P("{") ->
                IF IsPunct(toks, i + 1, "}") THEN POk(JObj({}), i + 2)
                ELSE ParseMembers(toks, i + 1, {}, <<>>)
           [] OTHER -> PFail

\* The deserializer over the whole input: one value, then end of input.
FromSlice(bytes) ==
    LET toks == SkipWs(bytes)
        r == ParseValue(toks, 1) IN
    IF r.ok /\ r.next = Len(toks) + 1 THEN r ELSE PFail

\* serde_json::from_slice::<Value> / from_str
FromSliceValue(bytes) ==
    LET r == FromSlice(bytes) IN
    IF r.ok
    THEN [ok |-> TRUE, val |-> r.val, err |-> ""]
    ELSE [ok |-> FALSE, val |-> JNull, err |-> "serde_json syntax error"]

(***************************************************************************)
(* serde_json serializer: Value -> tokens                                  *)
(***************************************************************************)
\* Map<String, Value> is a BTreeMap: members are written in key order.
KeyOrder == <<"a", "error", "message", "not_webhook_url", "ok", "text", "webhook_url", "x">>

RECURSIVE ToTokens(_)
RECURSIVE ElemTokens(_)
RECURSIVE MemberTokens(_, _)

ElemTokens(a) ==
    IF a = <<>> THEN <<>>
    ELSE ToTokens(Head(a)) \o (IF Len(a) > 1 THEN <<P(",")>> ELSE <<>>) \o ElemTokens(Tail(a))

\* Members of m whose key is at position >= i of KeyOrder.
MemberTokens(m, i) ==
    IF i > Len(KeyOrder) THEN <<>>
    ELSE LET rest == MemberTokens(m, i + 1) IN
         IF MapHas(m, KeyOrder[i])
         THEN <<S(KeyOrder[i]), P(":")>> \o ToTokens(MapGet(m, KeyOrder[i]))
                  \o (IF rest # <<>> THEN <<P(",")>> ELSE <<>>) \o rest
         ELSE rest

ToTokens(v) ==
    CASE v.t = "null" -> <<L("null")>>
      [] v.t = "bool" -> <<L(v.s)>>
      [] v.t = "num" -> <<N(v.s)>>
      [] v.t = "str" -> <<S(v.s)>>
      [] v.t = "arr" -> <<P("[")>> \o ElemTokens(v.a) \o <<P("]")>>
      [] v.t = "obj" -> <<P("{")>> \o MemberTokens(v.m, 1) \o <<P("}")>>

(***************************************************************************)
(* Header names and values (http::header)                                  *)
(***************************************************************************)
SettingsHeader == "x-edgee-component-settings"

ContentType == "content-type"

\* HeaderName::from_bytes normalises the name to lower case.
Lower(n) ==
    CASE n = "X-Edgee-Component-Settings" -> "x-edgee-component-settings"
      [] n = "X-EDGEE-COMPONENT-SETTINGS" -> "x-edgee-component-settings"
      [] n = "Content-Type" -> "content-type"
      [] n = "X-Trace" -> "x-trace"
      [] OTHER -> n

\* Mutant of HeaderNameFromBytes: the name is kept as spelled.
HeaderNameFromBytesVerbatim(n) ==
    IF n \in {"", "bad name"} THEN [ok |-> FALSE, name |-> ""] ELSE [ok |-> TRUE, name |-> n]

\* HeaderName::from_bytes: Err on a name that is empty or holds a byte that no token may hold.
HeaderNameFromBytes(n) ==
    IF n \in {"", "bad name"} THEN [ok |-> FALSE, name |-> ""] ELSE [ok |-> TRUE, name |-> Lower(n)]

\* Texts holding bytes >= 0x80 (opaque to HeaderValue::to_str, legal in a HeaderValue).
OpaqueTexts == {"https://hooks.example/caf[c3][a9]"}

\* Texts holding a control byte, which HeaderValue::from_bytes refuses.
ControlTexts == {"line[0a]break"}

HeaderValueFromBytes(bytes) == \A i \in 1..Len(bytes) : bytes[i].s \notin ControlTexts

\* HeaderValue::to_str: Ok iff every byte is visible ASCII.
ToStr(bytes) == \A i \in 1..Len(bytes) : bytes[i].s \notin OpaqueTexts

(***************************************************************************)
(* http::HeaderMap: entries in first-insertion order of the names, each    *)
(* with the values of the name in insertion order.                         *)
(***************************************************************************)
HeaderMapNew == <<>>

HeaderMapIndex(map, name) ==
    IF \E i \in 1..Len(map) : map[i].name = name
    THEN CHOOSE i \in 1..Len(map) : map[i].name = name
    ELSE 0

HeaderMapContains(map, name) == HeaderMapIndex(map, name) # 0

\* HeaderMap::get: the first value of the name.
HeaderMapGet(map, name) ==
    IF HeaderMapContains(map, name) THEN Some(map[HeaderMapIndex(map, name)].vals[1]) ELSE None

\* HeaderMap::append: keeps the values already there.
HeaderMapAppend(map, name, v) ==
    IF HeaderMapContains(map, name)
    THEN [map EXCEPT ![HeaderMapIndex(map, name)].vals = Append(@, v)]
    ELSE Append(map, [name |-> name, vals |-> <<v>>])

\* HeaderMap::insert: replaces every value of the name.
HeaderMapInsert(map, name, v) ==
    IF HeaderMapContains(map, name)
    THEN [map EXCEPT ![HeaderMapIndex(map, name)].vals = <<v>>]
    ELSE Append(map, [name |-> name, vals |-> <<v>>])

\* HeaderMap::entry(name).or_insert(v)
HeaderMapEntryOrInsert(map, name, v) ==
    IF HeaderMapContains(map, name) THEN map ELSE Append(map, [name |-> name, vals |-> <<v>>])

RECURSIVE CollectHeaders(_, _)
\* FromIterator<(HeaderName, HeaderValue)>: append each pair; the first Err ends it.
CollectHeaders(entries, map) ==
    IF entries = <<>> THEN [ok |-> TRUE, map |-> map]
    ELSE LET n == HeaderNameFromBytes(Head(entries)[1]) IN
         IF ~n.ok \/ ~HeaderValueFromBytes(Head(entries)[2])
         THEN [ok |-> FALSE, map |-> HeaderMapNew]
         ELSE CollectHeaders(Tail(entries), HeaderMapAppend(map, n.name, Head(entries)[2]))

\* impl TryFrom<Headers> for http::header::HeaderMap
HeaderMapTryFrom(entries) == CollectHeaders(entries, HeaderMapNew)

RECURSIVE HeadersFrom(_)
\* impl From<http::header::HeaderMap> for Headers: HeaderMap::into_iter yields
\* (Some(name), first value) and then (None, value) for each further value of
\* the name; the filter_map keeps the pairs whose name is Some.
HeadersFrom(map) ==
    IF map = <<>> THEN <<>>
    ELSE <<(<<Head(map).name, Head(map).vals[1]>>)>> \o HeadersFrom(Tail(map))

(***************************************************************************)
(* Settings (src/lib.rs)                                                   *)
(***************************************************************************)
SettingsOk(url) == [tag |-> "ok", webhook_url |-> url, err |-> ""]

SettingsErr(msg) == [tag |-> "err", webhook_url |-> "", err |-> msg]

NoSettings == [tag |-> "none", webhook_url |-> "", err |-> ""]

\* serde_json::from_str::<HashMap<String, String>>: every member read must
\* hold a string; HashMap::insert keeps the last value of a repeated key.
FromStrStringMap(bytes) ==
    LET r == FromSlice(bytes) IN
    IF r.ok /\ r.val.t = "obj" /\ \A i \in 1..Len(r.members) : r.members[i][2].t = "str"
    THEN [ok |-> TRUE, map |-> {<<p[1], p[2].s>> : p \in r.val.m}]
    ELSE [ok |-> FALSE, map |-> {}]

\* Mutant of SettingsNew: a missing webhook_url key defaults to the empty string.
SettingsNewLenient(headers) ==
    LET got == HeaderMapGet(headers, SettingsHeader) IN
    IF ~got.some THEN SettingsErr("Missing 'x-edgee-component-settings' header")
    ELSE IF ~ToStr(got.v) THEN SettingsErr("failed to convert header to a str")
    ELSE LET data == FromStrStringMap(got.v) IN
         IF ~data.ok THEN SettingsErr("serde_json error")
         ELSE IF ~MapHas(data.map, "webhook_url") THEN SettingsOk("")
         ELSE SettingsOk(MapGet(data.map, "webhook_url"))

\* Settings::new
SettingsNew(headers) ==
    LET got == HeaderMapGet(headers, SettingsHeader) IN
    IF ~got.some THEN SettingsErr("Missing 'x-edgee-component-settings' header")
    ELSE IF ~ToStr(got.v) THEN SettingsErr("failed to convert header to a str")
    ELSE LET data == FromStrStringMap(got.v) IN
         IF ~data.ok THEN SettingsErr("serde_json error")
         ELSE IF ~MapHas(data.map, "webhook_url") THEN SettingsErr("Missing webhook_url setting")
         ELSE SettingsOk(MapGet(data.map, "webhook_url"))

\* Settings::from_req
SettingsFromReq(req) == SettingsNew(req.headers)

(***************************************************************************)
(* IncomingRequest -> http::Request (src/helpers/extensions.rs)            *)
(***************************************************************************)
\* The variants of wasi:http Method.
Methods == {"Get", "Head", "Post", "Put", "Delete", "Connect", "Options", "Trace", "Patch", "Other"}

\* impl TryFrom<Method> for http::Method
HttpMethodTryFrom(method) ==
    IF method \in {"Get", "Post", "Put", "Patch", "Delete", "Head", "Options", "Trace"}
    THEN [ok |-> TRUE, err |-> ""]
    ELSE [ok |-> FALSE, err |-> "Invalid method"]

\* Strings uri::Authority / uri::PathAndQuery refuse to parse.
BadUriTexts == {"exa mple.com", "/a b"}

\* to_http_request_builder: the first failing check decides the error.
ToHttpRequestBuilder(scheme, authority, path_and_query, method) ==
    IF ~(scheme.some /\ scheme.v \in {"Http", "Https"}) THEN [ok |-> FALSE, err |-> "Invalid scheme"]
    ELSE IF ~authority.some THEN [ok |-> FALSE, err |-> "Missing authority"]
    ELSE IF authority.v \in BadUriTexts THEN [ok |-> FALSE, err |-> "invalid uri character"]
    ELSE IF ~path_and_query.some THEN [ok |-> FALSE, err |-> "Missing path and query"]
    ELSE IF path_and_query.v \in BadUriTexts THEN [ok |-> FALSE, err |-> "invalid uri character"]
    ELSE HttpMethodTryFrom(method)

NoHttpReq == [ok |-> FALSE, err |-> "", headers |-> HeaderMapNew]

\* impl TryFrom<IncomingRequest> for http::Request<IncomingBody>
HttpRequestTryFrom(req) ==
    LET builder == ToHttpRequestBuilder(req.scheme, req.authority, req.path_with_query, req.method)
        hs == HeaderMapTryFrom(req.headers) IN
    IF ~builder.ok THEN [ok |-> FALSE, err |-> builder.err, headers |-> HeaderMapNew]
    ELSE IF ~hs.ok THEN [ok |-> FALSE, err |-> "invalid header", headers |-> HeaderMapNew]
    ELSE IF ~req.consume_ok
    THEN [ok |-> FALSE, err |-> "Could not consume request body", headers |-> HeaderMapNew]
    ELSE [ok |-> TRUE, err |-> "", headers |-> hs.map]

(***************************************************************************)
(* IncomingBody::read / read_json                                          *)
(***************************************************************************)
Data(bytes) == [ev |-> "data", bytes |-> bytes]

Closed == [ev |-> "closed", bytes |-> <<>>]

Failed == [ev |-> "failed", bytes |-> <<>>]

RECURSIVE ReadLoop(_, _)
\* The loop of IncomingBody::read over the results of stream.read(4096), in
\* order: Ok(frame) extends the buffer, Err(Closed) ends the loop, any other
\* Err is the result.
ReadLoop(events, bytes) ==
    LET e == Head(events) IN
    CASE e.ev = "data" -> ReadLoop(Tail(events), bytes \o e.bytes)
      [] e.ev = "closed" -> [ok |-> TRUE, bytes |-> bytes, err |-> ""]
      [] OTHER -> [ok |-> FALSE, bytes |-> <<>>, err |-> "Failed reading request body"]

\* IncomingBody::read
IncomingBodyRead(body) ==
    IF ~body.has_stream
    THEN [ok |-> FALSE, bytes |-> <<>>, err |-> "Missing request body stream"]
    ELSE ReadLoop(body.events, <<>>)

NoValue == [ok |-> FALSE, val |-> JNull, err |-> ""]

\* IncomingBody::read_json::<serde_json::Value>
ReadJson(body) ==
    LET bytes == IncomingBodyRead(body) IN
    IF ~bytes.ok THEN [ok |-> FALSE, val |-> JNull, err |-> bytes.err]
    ELSE FromSliceValue(bytes.bytes)

(***************************************************************************)
(* The relay handler (src/lib.rs)                                          *)
(***************************************************************************)
HOk(status, headers, body, serializable) ==
    [ok |-> TRUE, err |-> "", status |-> status, headers |-> headers, body |-> body,
     serializable |-> serializable]

HErr(msg) ==
    [ok |-> FALSE, err |-> msg, status |-> 0, headers |-> HeaderMapNew, body |-> JNull,
     serializable |-> TRUE]

NoResult == HErr("")

\* SlackMessagePayload::new and its derived Serialize
SlackMessagePayloadNew(text) == JObj({<<"text", JStr(text)>>})

\* Mutant of SlackResponseFromStatus: every 2xx status counts as ok.
SlackResponseFromStatus2xx(status) == JObj({<<"ok", JBool(status >= 200 /\ status < 300)>>})

\* SlackResponse::from_status and its derived Serialize
SlackResponseFromStatus(status) == JObj({<<"ok", JBool(status = 200)>>})

\* http::StatusCode::from_u16, as http::response::Builder::status applies it
StatusCodeOk(status) == status >= 100 /\ status < 1000

\* SlackMessagePayload::send: the POST as handed to the outbound client.
SlackSend(payload, webhook_url, outcome) ==
    [url |-> webhook_url, content_type |-> <<Raw("application/json")>>,
     body |-> ToTokens(payload), outcome |-> outcome]

\* Value::as_str().unwrap_or_default().to_string()
AsStrOrDefault(v) == IF v.t = "str" THEN v.s ELSE ""

\* Mutant of HandleJsonRequest: the message is looked for before the settings.
HandleJsonRequestMessageFirst(headers, body, outcome) ==
    LET st == SettingsNew(headers)
        message == ValueGet(body, "message") IN
    IF ~message.some
    THEN [settings |-> st, posts |-> <<>>, panic |-> FALSE,
          res |-> HErr("Missing 'message' field in request body")]
    ELSE IF st.tag = "err"
    THEN [settings |-> st, posts |-> <<>>, panic |-> FALSE, res |-> HErr(st.err)]
    ELSE LET post == SlackSend(SlackMessagePayloadNew(AsStrOrDefault(message.v)),
                               st.webhook_url, outcome) IN
         IF ~outcome.ok
         THEN [settings |-> st, posts |-> <<post>>, panic |-> TRUE, res |-> NoResult]
         ELSE IF ~StatusCodeOk(outcome.status)
         THEN [settings |-> st, posts |-> <<post>>, panic |-> FALSE,
               res |-> HErr("invalid status code")]
         ELSE [settings |-> st, posts |-> <<post>>, panic |-> FALSE,
               res |-> HOk(outcome.status, HeaderMapNew,
                           SlackResponseFromStatus(outcome.status), TRUE)]

\* Component::handle_json_request on the request's headers and decoded body;
\* outcome is what the outbound client answers if the POST is issued.
\* Yields the settings it derived, the POSTs it issued, whether it panicked
\* (the expect on send's Err) and its Result.
HandleJsonRequest(headers, body, outcome) ==
    LET st == SettingsNew(headers)
        message == ValueGet(body, "message") IN
    IF st.tag = "err"
    THEN [settings |-> st, posts |-> <<>>, panic |-> FALSE, res |-> HErr(st.err)]
    ELSE IF ~message.some
    THEN [settings |-> st, posts |-> <<>>, panic |-> FALSE,
          res |-> HErr("Missing 'message' field in request body")]
    ELSE LET post == SlackSend(SlackMessagePayloadNew(AsStrOrDefault(message.v)),
                               st.webhook_url, outcome) IN
         IF ~outcome.ok
         THEN [settings |-> st, posts |-> <<post>>, panic |-> TRUE, res |-> NoResult]
         ELSE IF ~StatusCodeOk(outcome.status)
         THEN [settings |-> st, posts |-> <<post>>, panic |-> FALSE,
               res |-> HErr("invalid status code")]
         ELSE [settings |-> st, posts |-> <<post>>, panic |-> FALSE,
               res |-> HOk(outcome.status, HeaderMapNew,
                           SlackResponseFromStatus(outcome.status), TRUE)]

(***************************************************************************)
(* helpers::run_json and handle_json_error (src/helpers/mod.rs)            *)
(***************************************************************************)
ApplicationJson == <<Raw("application/json")>>

Response(status, headers, body) == [status |-> status, headers |-> headers, body |-> body]

NoResponse == Response(0, HeaderMapNew, <<>>)

\* Json<T>::into_body: serde_json::to_writer into a buffer; Err when T's
\* Serialize impl fails.
JsonIntoBody(v, serializable) ==
    IF serializable THEN [ok |-> TRUE, bytes |-> ToTokens(v)] ELSE [ok |-> FALSE, bytes |-> <<>>]

\* body::json: serialize a value to the bytes of a response body.
BodyJson(v, serializable) == JsonIntoBody(v, serializable)

\* Mutant of HandleJsonError: the failure is reported as a client error.
HandleJsonErrorBadRequest(msg) ==
    Response(400,
             HeaderMapAppend(HeaderMapNew, ContentType, ApplicationJson),
             BodyJson(JObj({<<"error", JStr("Bad request")>>,
                            <<"message", JStr(msg)>>}), TRUE).bytes)

\* handle_json_error: the response it builds and sends.
HandleJsonError(msg) ==
    Response(500,
             HeaderMapAppend(HeaderMapNew, ContentType, ApplicationJson),
             BodyJson(JObj({<<"error", JStr("Internal server error")>>,
                            <<"message", JStr(msg)>>}), TRUE).bytes)

\* run_json, "Encode response body" to "Response::from_parts": the response
\* handed to send for a handler result Ok(res).
RunJsonEncode(hres) ==
    LET body == BodyJson(hres.body, hres.serializable) IN
    IF ~body.ok THEN HandleJsonError("Invalid JSON response")
    ELSE Response(hres.status, HeaderMapInsert(hres.headers, ContentType, ApplicationJson),
                  body.bytes)

(***************************************************************************)
(* Typed data behind Json<T> (serde): a Rust value of a data type is a     *)
(* record of the same shape as a serde_json::Value, with four more tags:   *)
(* "none" and "some" for Option (the inner value is a[1]), "struct" for a  *)
(* struct with named fields (the fields are m) and "unit" for ().  A       *)
(* number that is NaN or infinite has a text in NonFinite.                 *)
(***************************************************************************)
OptNone == [t |-> "none", s |-> "", a |-> <<>>, m |-> {}]

\* The value of type ().
UnitValue == [t |-> "unit", s |-> "", a |-> <<>>, m |-> {}]

OptSome(x) == [t |-> "some", s |-> "", a |-> <<x>>, m |-> {}]

StructOf(fields) == [t |-> "struct", s |-> "", a |-> <<>>, m |-> fields]

\* f64 values that JSON cannot write.
NonFinite == {"NaN", "inf"}

\* Texts of the numbers that are an i32.
IntTexts == {"1", "42"}

\* The data types T of the Json<T> the codec is used with.
DataTypes == {"Value", "Test", "f64", "()", "Option<Option<i32>>", "Option<Value>", "Option<()>"}

\* The text serde_json writes for a finite f64, and the f64 read from the
\* text of a number: a float always carries a fractional part.
F64Text(s) ==
    CASE s = "1" -> "1.0"
      [] s = "42" -> "42.0"
      [] OTHER -> s

\* The type of the value inside an Option or of the field of Test.
InnerType(ty) ==
    CASE ty = "Option<Option<i32>>" -> "Option<i32>"
      [] ty = "Option<Value>" -> "Value"
      [] ty = "Option<()>" -> "()"
      [] ty = "Option<i32>" -> "i32"
      [] ty = "Test" -> "i32"
      [] OTHER -> ty

RECURSIVE Serialize(_, _)
\* T's Serialize as serde_json drives it: None is written as null, Some(x)
\* as x, () as null, a struct as an object of its fields, a finite f64
\* with its fractional part and a non-finite one as null.
Serialize(ty, x) ==
    CASE x.t = "none" -> JNull
      [] x.t = "unit" -> JNull
      [] x.t = "some" -> Serialize(InnerType(ty), x.a[1])
      [] x.t = "struct" -> JObj({<<p[1], Serialize(InnerType(ty), p[2])>> : p \in x.m})
      [] x.t = "num" /\ x.s \in NonFinite -> JNull
      [] x.t = "num" /\ ty = "f64" -> JNum(F64Text(x.s))
      [] OTHER -> x

DeFail == [ok |-> FALSE, val |-> JNull]

DeOk(x) == [ok |-> TRUE, val |-> x]

\* i32's Deserialize
DeserializeI32(v) == IF v.t = "num" /\ v.s \in IntTexts THEN DeOk(v) ELSE DeFail

\* Option<i32>'s Deserialize: null is None, anything else is the inner type's.
DeserializeOptionI32(v) ==
    IF v = JNull THEN DeOk(OptNone)
    ELSE IF DeserializeI32(v).ok THEN DeOk(OptSome(v)) ELSE DeFail

RECURSIVE VisitMapTest(_, _)
\* visit_map of the derived impl of struct Test { a: i32 }, over the members
\* still to read, a the field if already read: a second "a" is a duplicate
\* field, an "a" that is not an i32 a type error, any other member is
\* ignored; at the end the field must have been read.
VisitMapTest(members, a) ==
    IF members = <<>> THEN (IF a.some THEN DeOk(StructOf({<<"a", a.v>>})) ELSE DeFail)
    ELSE IF Head(members)[1] # "a" THEN VisitMapTest(Tail(members), a)
    ELSE IF a.some \/ ~DeserializeI32(Head(members)[2]).ok THEN DeFail
    ELSE VisitMapTest(Tail(members), Some(Head(members)[2]))

\* T's Deserialize, on the JSON value v read from the bytes, members being
\* the members of v in the order read when v is an object.  An Option is
\* None on null and otherwise Some of what the inner type reads; () reads
\* from null only, so Option<()> never reads a Some.  The derived
\* impl of struct Test { a: i32 } takes an object (visit_map) or a sequence
\* of the fields in order.
Deserialize(ty, v, members) ==
    CASE ty = "Value" -> DeOk(v)
      [] ty = "f64" -> IF v.t = "num" THEN DeOk(JNum(F64Text(v.s))) ELSE DeFail
      [] ty = "Option<Option<i32>>" ->
            IF v = JNull THEN DeOk(OptNone)
            ELSE IF DeserializeOptionI32(v).ok
                 THEN DeOk(OptSome(DeserializeOptionI32(v).val)) ELSE DeFail
      [] ty = "()" -> IF v = JNull THEN DeOk(UnitValue) ELSE DeFail
      [] ty = "Option<Value>" -> IF v = JNull THEN DeOk(OptNone) ELSE DeOk(OptSome(v))
      [] ty = "Option<()>" -> IF v = JNull THEN DeOk(OptNone) ELSE DeFail
      [] ty = "Test" ->
            IF v.t = "obj" THEN VisitMapTest(members, None)
            ELSE IF v.t = "arr" /\ Len(v.a) = 1 /\ DeserializeI32(v.a[1]).ok
            THEN DeOk(StructOf({<<"a", v.a[1]>>}))
            ELSE DeFail
      [] OTHER -> DeFail

(***************************************************************************)
(* FromBody / IntoBody (src/helpers/body.rs)                               *)
(***************************************************************************)
\* A typed body: opt is "bare" for T and "none" / "some" for Option<T>;
\* kind names T; bytes is the content of Bytes and String; ty and x are the
\* data type and the value of Json<ty>.
BodyValue(opt, kind, ty, bytes, x) ==
    [opt |-> opt, kind |-> kind, ty |-> ty, bytes |-> bytes, x |-> x]

NoBodyValue == BodyValue("bare", "Unit", "", <<>>, JNull)

\* A decoder: T (opt = "bare") or Option<T> (opt = "option").
Decoder(opt, kind, ty) == [opt |-> opt, kind |-> kind, ty |-> ty]

FromDataOk(v) == [ok |-> TRUE, panic |-> FALSE, val |-> v]

FromDataErr == [ok |-> FALSE, panic |-> FALSE, val |-> NoBodyValue]

FromDataPanic == [ok |-> FALSE, panic |-> TRUE, val |-> NoBodyValue]

\* Texts that are not UTF-8.
InvalidUtf8Texts == {"[ff][fe]"}

\* String::from_utf8
FromUtf8(data) == \A i \in 1..Len(data) : data[i].s \notin InvalidUtf8Texts

\* Mutant of JsonFromData: a JSON value that does not match T gives T's default.
JsonFromDataLenient(ty, data) ==
    LET r == FromSlice(data) IN
    IF ~r.ok THEN FromDataErr
    ELSE LET d == Deserialize(ty, r.val, r.members) IN
         IF ~d.ok THEN FromDataOk(BodyValue("bare", "Json", ty, <<>>, JNull))
         ELSE FromDataOk(BodyValue("bare", "Json", ty, <<>>, d.val))

\* impl FromBody for Json<T>: from_data
JsonFromData(ty, data) ==
    LET r == FromSlice(data) IN
    IF ~r.ok THEN FromDataErr
    ELSE LET d == Deserialize(ty, r.val, r.members) IN
         IF ~d.ok THEN FromDataErr
         ELSE FromDataOk(BodyValue("bare", "Json", ty, <<>>, d.val))

\* T::from_data for the implementors other than Option
BareFromData(kind, ty, data) ==
    CASE kind = "Bytes" -> FromDataOk(BodyValue("bare", "Bytes", "", data, JNull))
      [] kind = "Unit" -> FromDataOk(BodyValue("bare", "Unit", "", <<>>, JNull))
      [] kind = "String" ->
            IF FromUtf8(data) THEN FromDataOk(BodyValue("bare", "String", "", data, JNull))
            ELSE FromDataErr
      [] kind = "Json" -> JsonFromData(ty, data)
      [] kind = "IncomingBody" -> FromDataPanic

\* Ok(Some(v)) for Ok(v); an Err (or a panic) of T's decoder is the result.
WrapSome(r) == IF r.ok THEN [r EXCEPT !.val.opt = "some"] ELSE r

\* Mutant of OptionFromData: the decoder of T is called on empty data too.
OptionFromDataAlwaysSome(kind, ty, data) == WrapSome(BareFromData(kind, ty, data))

\* impl FromBody for Option<T>: from_data
OptionFromData(kind, ty, data) ==
    IF data = <<>> THEN FromDataOk(BodyValue("none", kind, ty, <<>>, JNull))
    ELSE WrapSome(BareFromData(kind, ty, data))

\* from_data by decoder
FromData(dec, data) ==
    IF dec.opt = "option" THEN OptionFromData(dec.kind, dec.ty, data)
    ELSE BareFromData(dec.kind, dec.ty, data)

\* T::into_body for the implementors other than Option
BareIntoBody(v, serializable) ==
    CASE v.kind \in {"Bytes", "String", "RawJson", "Html"} -> [ok |-> TRUE, bytes |-> v.bytes]
      [] v.kind = "Unit" -> [ok |-> TRUE, bytes |-> <<>>]
      [] v.kind = "Json" -> JsonIntoBody(Serialize(v.ty, v.x), serializable)

\* into_body by implementor: Option<T> is T's on Some and empty on None.
IntoBody(v, serializable) ==
    IF v.opt = "none" THEN [ok |-> TRUE, bytes |-> <<>>] ELSE BareIntoBody(v, serializable)

\* The decoder of the type a typed body has.
DecoderOf(v) == Decoder(IF v.opt = "bare" THEN "bare" ELSE "option", v.kind, v.ty)

\* The scratch of the codec operations: c, parts and out are the implementor,
\* the response parts before and after extend_response_parts; dec and data
\* the decoder and the buffer of from_data, got its result; v and ser the
\* typed body of into_body and whether its Serialize succeeds, enc its result.
NoCodec == [op |-> "none", c |-> [opt |-> "bare", kind |-> "Unit"],
            parts |-> [status |-> 0, headers |-> <<>>],
            out |-> [status |-> 0, headers |-> <<>>],
            dec |-> Decoder("bare", "Unit", ""), data |-> <<>>, got |-> FromDataErr,
            v |-> NoBodyValue, ser |-> TRUE, enc |-> [ok |-> FALSE, bytes |-> <<>>]]

(***************************************************************************)
(* The body-read loops, one iteration at a time: IncomingBody::read        *)
(* (src/helpers/extensions.rs) and parse_body (src/helpers.rs).            *)
(***************************************************************************)
\* fn names the function; state is "start", "reading" or "returned"; pos is
\* the number of stream.read calls answered from the stream's events; bytes
\* is the buffer; ok and err are the Result once returned; iter tells an
\* iteration of the loop from the next.
Reader(fn, state, pos, bytes, ok, err, iter) ==
    [fn |-> fn, state |-> state, pos |-> pos, bytes |-> bytes, ok |-> ok, err |-> err,
     iter |-> iter]

NoReader == Reader("none", "start", 0, <<>>, FALSE, "", FALSE)

\* stream.read(4096): the events of the stream in order; a stream that has
\* given all of them and is still open has no byte ready.
StreamRead(body, pos) == IF pos < Len(body.events) THEN body.events[pos + 1] ELSE Data(<<>>)

Advance(body, pos) == IF pos < Len(body.events) THEN pos + 1 ELSE pos

\* Mutant of ReadNext: the frame replaces the buffer.
ReadNextLastFrame(r, e, pos) ==
    CASE e.ev = "data" -> [r EXCEPT !.bytes = e.bytes, !.pos = pos, !.iter = ~@]
      [] e.ev = "closed" -> [r EXCEPT !.state = "returned", !.ok = TRUE, !.pos = pos]
      [] OTHER -> [r EXCEPT !.state = "returned", !.ok = FALSE, !.bytes = <<>>, !.pos = pos,
                            !.err = "Failed reading request body"]

\* One iteration of the loop of IncomingBody::read, on the result e of
\* stream.read: Ok(frame) extends the buffer, Err(Closed) breaks and
\* returns Ok(bytes), any other Err is returned.
ReadNext(r, e, pos) ==
    CASE e.ev = "data" -> [r EXCEPT !.bytes = @ \o e.bytes, !.pos = pos, !.iter = ~@]
      [] e.ev = "closed" -> [r EXCEPT !.state = "returned", !.ok = TRUE, !.pos = pos]
      [] OTHER -> [r EXCEPT !.state = "returned", !.ok = FALSE, !.bytes = <<>>, !.pos = pos,
                            !.err = "Failed reading request body"]

\* One iteration of the loop of parse_body: an empty chunk breaks, as
\* Err(Closed) does; any other Err is returned.
ParseBodyNext(r, e, pos) ==
    CASE e.ev = "data" /\ e.bytes = <<>> -> [r EXCEPT !.state = "returned", !.ok = TRUE, !.pos = pos]
      [] e.ev = "data" /\ e.bytes # <<>> -> [r EXCEPT !.bytes = @ \o e.bytes, !.pos = pos, !.iter = ~@]
      [] e.ev = "closed" -> [r EXCEPT !.state = "returned", !.ok = TRUE, !.pos = pos]
      [] OTHER -> [r EXCEPT !.state = "returned", !.ok = FALSE, !.bytes = <<>>, !.pos = pos,
                            !.err = "Failed to read from request stream"]

(***************************************************************************)
(* ResponseBuilder (src/helpers.rs)                                        *)
(***************************************************************************)
\* headers is the Fields resource, as its entries; body_content is the
\* Option<String>; calls counts the setters called.
ResponseBuilderOf(headers, status_code, body_content, calls) ==
    [headers |-> headers, status_code |-> status_code, body_content |-> body_content,
     calls |-> calls]

NoBodyContent == [some |-> FALSE, v |-> <<>>]

\* ResponseBuilder::new
ResponseBuilderNew == ResponseBuilderOf(<<>>, 200, NoBodyContent, 0)

\* Fields::set(key, [value]): field names are compared without regard to
\* case; the entries of the name are removed and one entry, with the name as
\* this call spells it, is added; the host refuses a name or a value that is
\* not one.
FieldsSet(fields, key, v) ==
    IF ~HeaderNameFromBytes(key).ok \/ ~HeaderValueFromBytes(v) THEN fields
    ELSE Append(SelectSeq(fields, LAMBDA en : Lower(en[1]) # Lower(key)), <<key, v>>)

\* ResponseBuilder::set_header: the result of Fields::set is ignored.
SetHeaderOf(b, key, v) ==
    [b EXCEPT !.headers = FieldsSet(@, key, v), !.calls = @ + 1]

\* ResponseBuilder::set_status_code
SetStatusCodeOf(b, status_code) == [b EXCEPT !.status_code = status_code, !.calls = @ + 1]

\* ResponseBuilder::set_body
SetBodyOf(b, body) == [b EXCEPT !.body_content = [some |-> TRUE, v |-> body], !.calls = @ + 1]

\* format!("{{\"error\": \"{msg}\"}}")
ErrorBody(msg) == <<P("{"), S("error"), P(":"), W, S(msg), P("}")>>

\* error_response: the builder it hands to build
ErrorResponseBuilder(msg, status_code) ==
    SetBodyOf(SetStatusCodeOf(SetHeaderOf(ResponseBuilderNew, ContentType, ApplicationJson),
                              status_code),
              ErrorBody(msg))

(***************************************************************************)
(* Inputs of an invocation                                                 *)
(***************************************************************************)
GoodSettings(url) == <<P("{"), S("webhook_url"), P(":"), W, S(url), P("}")>>

\* A settings text whose key is repeated, the first value not a string.
RepeatedKeySettings(url) ==
    <<P("{"), S("webhook_url"), P(":"), N("42"), P(","), S("webhook_url"), P(":"), S(url), P("}")>>

WebhookA == "http://example.com/webhook"

WebhookB == "https://hooks.example/B"

\* Request lines: the well-formed ones, and one for each way the conversion fails.
RequestLine(method, scheme, authority, path) ==
    [method |-> method, scheme |-> scheme, authority |-> authority, path_with_query |-> path]

RequestLines ==
    { RequestLine("Post", Some("Https"), Some("example.com"), Some("/api/test?foo=bar")),
      RequestLine("Get", Some("Http"), Some("example.com"), Some("/")),
      RequestLine("Connect", Some("Https"), Some("example.com"), Some("/")),
      RequestLine("Other", Some("Https"), Some("example.com"), Some("/")),
      RequestLine("Post", None, Some("example.com"), Some("/")),
      RequestLine("Post", Some("Other"), Some("example.com"), Some("/")),
      RequestLine("Post", Some("Https"), None, Some("/")),
      RequestLine("Post", Some("Https"), Some("exa mple.com"), Some("/")),
      RequestLine("Post", Some("Https"), Some("example.com"), None),
      RequestLine("Post", Some("Https"), Some("example.com"), Some("/a b")) }

RequestHeaders ==
    { <<>>,
      << <<"Content-Type", ApplicationJson>> >>,
      << <<SettingsHeader, GoodSettings(WebhookA)>> >>,
      << <<"X-Edgee-Component-Settings", GoodSettings(WebhookA)>> >>,
      << <<"Content-Type", ApplicationJson>>, <<SettingsHeader, GoodSettings(WebhookB)>> >>,
      << <<SettingsHeader, GoodSettings(WebhookA)>>, <<SettingsHeader, GoodSettings(WebhookB)>> >>,
      << <<SettingsHeader, <<P("{"), S("not_webhook_url"), P(":"), S("value"), P("}")>> >> >>,
      << <<SettingsHeader, <<Raw("not a json")>> >> >>,
      << <<SettingsHeader, RepeatedKeySettings(WebhookB)>> >>,
      << <<SettingsHeader, GoodSettings("https://hooks.example/caf[c3][a9]")>> >> }

Msg(v) == <<P("{"), S("message"), P(":"), v, P("}")>>

Stream(events) == [has_stream |-> TRUE, events |-> events]

RequestBodies ==
    { Stream(<<Closed>>),
      Stream(<<Data(Msg(S("hi"))), Closed>>),
      Stream(<<Data(<<P("{"), S("message")>>), Data(<<>>), Data(<<P(":"), S("Hello, Slack!"), P("}")>>), Closed>>),
      Stream(<<Data(Msg(S(""))), Closed>>),
      Stream(<<Data(<<P("{"), P("}")>>), Closed>>),
      Stream(<<Data(Msg(N("42"))), Closed>>),
      Stream(<<Data(Msg(L("null"))), Closed>>),
      Stream(<<Data(Msg(L("true"))), Closed>>),
      Stream(<<Data(<<P("{"), S("message"), P(":"), P("["), S("hi"), P("]"), P("}")>>), Closed>>),
      Stream(<<Data(<<P("{"), S("message"), P(":"), P("{"), S("text"), P(":"), S("hi"), P("}"), P("}")>>), Closed>>),
      Stream(<<Data(<<S("message")>>), Closed>>),
      Stream(<<Data(<<Raw("not a json")>>), Closed>>),
      Stream(<<Data(<<P("{"), S("message")>>), Closed>>),
      Stream(<<Data(Msg(S("hi"))), Failed>>) }

\* What the outbound client may answer to the POST.
PostOk(status) == [ok |-> TRUE, status |-> status, err |-> ""]

PostErr(cause) == [ok |-> FALSE, status |-> 0, err |-> cause]

PostOutcomes == {PostOk(200), PostOk(201), PostOk(404), PostOk(500), PostErr("connection refused")}

\* The handlers run_json may be given: the relay handler of Component::handle,
\* or any other closure, described by the result it returns.
Handlers == {"relay", "custom"}

TextPlain == <<Raw("text/plain")>>

CustomResults ==
    { HErr("custom failure"),
      HOk(200, HeaderMapNew, JObj({<<"a", JNum("1")>>}), TRUE),
      HOk(201, <<[name |-> ContentType, vals |-> <<TextPlain>>]>>, JStr("x"), TRUE),
      HOk(200, <<[name |-> "x-trace", vals |-> <<(<<Raw("t1")>>), (<<Raw("t2")>>)>>],
                 [name |-> ContentType, vals |-> <<TextPlain>>]>>, JNull, TRUE),
      HOk(200, <<[name |-> "x-trace", vals |-> <<(<<Raw("t1")>>)>>]>>, JNull, FALSE) }

(***************************************************************************)
(* The invocation: Component::handle = run_json(req, resp, handler)        *)
(***************************************************************************)
\* The outgoing body: the response it belongs to, its write stream ("none",
\* "open" or "dropped"), the bytes written, whether they were flushed, and
\* whether OutgoingBody::finish succeeded.
NoWire == [response |-> [status |-> 0, headers |-> <<>>], stream |-> "none",
           written |-> <<>>, flushed |-> FALSE, finished |-> FALSE]


Init ==
    /\ reader = NoReader
    /\ pc = "start"
    /\ \E line \in RequestLines, hs \in RequestHeaders, body \in RequestBodies,
          consume \in BOOLEAN :
          request = [method |-> line.method, scheme |-> line.scheme,
                     authority |-> line.authority, path_with_query |-> line.path_with_query,
                     headers |-> hs, consume_ok |-> consume, body |-> body]
    /\ handler \in Handlers
    /\ http_req = NoHttpReq
    /\ value = NoValue
    /\ settings = NoSettings
    /\ result = NoResult
    /\ res = NoResponse
    /\ posts = <<>>
    /\ outparam = <<>>
    /\ wire = NoWire
    /\ response_builder = ResponseBuilderNew
    /\ codec = NoCodec

\* run_json: req.try_into().unwrap()
TryIntoRequest ==
    /\ pc = "start"
    /\ http_req' = HttpRequestTryFrom(request)
    /\ pc' = IF http_req'.ok THEN "read_json" ELSE "panicked"
    /\ UNCHANGED <<request, handler, value, settings, result, res, posts, outparam, wire, codec, reader, response_builder>>

\* run_json: "Decode request body"
DecodeBody ==
    /\ pc = "read_json"
    /\ value' = ReadJson(request.body)
    /\ IF value'.ok
       THEN pc' = "run_handler" /\ UNCHANGED res
       ELSE pc' = "send_body" /\ res' = HandleJsonError("Invalid JSON request")
    /\ UNCHANGED <<request, handler, http_req, settings, result, posts, outparam, wire, codec, reader, response_builder>>

\* run_json: "Run handler", with the handler of Component::handle
RunRelayHandler ==
    /\ pc = "run_handler"
    /\ handler = "relay"
    /\ \E outcome \in PostOutcomes :
          \E h \in {HandleJsonRequest(http_req.headers, value.val, outcome)} :
          /\ settings' = h.settings
          /\ posts' = posts \o h.posts
          /\ result' = h.res
          /\ IF h.panic THEN pc' = "panicked" /\ UNCHANGED res
             ELSE IF h.res.ok THEN pc' = "encode" /\ UNCHANGED res
             ELSE pc' = "send_body" /\ res' = HandleJsonError("Error during request handling")
    /\ UNCHANGED <<request, handler, http_req, value, outparam, wire, codec, reader, response_builder>>

\* run_json: "Run handler", with any other handler
RunCustomHandler ==
    /\ pc = "run_handler"
    /\ handler = "custom"
    /\ \E r \in CustomResults :
          /\ result' = r
          /\ IF r.ok THEN pc' = "encode" /\ UNCHANGED res
             ELSE pc' = "send_body" /\ res' = HandleJsonError("Error during request handling")
    /\ UNCHANGED <<request, handler, http_req, value, settings, posts, outparam, wire, codec, reader, response_builder>>

\* run_json: "Encode response body" and "Set content-type header"
EncodeResponse ==
    /\ pc = "encode"
    /\ res' = RunJsonEncode(result)
    /\ pc' = "send_body"
    /\ UNCHANGED <<request, handler, http_req, value, settings, result, posts, outparam, wire, codec, reader, response_builder>>

\* ResponseOutparam::send: OutgoingResponse::new, set_status_code, res.body()
SendBody ==
    /\ pc = "send_body"
    /\ \E ok \in BOOLEAN :
          IF ok
          THEN /\ wire' = [wire EXCEPT !.response = [status |-> res.status,
                                                     headers |-> HeadersFrom(res.headers)]]
               /\ pc' = "send_set"
          ELSE pc' = "panicked" /\ UNCHANGED wire
    /\ UNCHANGED <<request, handler, http_req, value, settings, result, res, posts, outparam, codec, reader, response_builder>>

\* ResponseOutparam::send: ResponseOutparam::set(self, Ok(res))
SendSet ==
    /\ pc = "send_set"
    /\ outparam' = Append(outparam, wire.response)
    /\ pc' = "send_writer"
    /\ UNCHANGED <<request, handler, http_req, value, settings, result, res, posts, wire, codec, reader, response_builder>>

\* ResponseOutparam::send: resp_body.write()
SendWriter ==
    /\ pc = "send_writer"
    /\ \E ok \in BOOLEAN :
          IF ok
          THEN wire' = [wire EXCEPT !.stream = "open"] /\ pc' = "send_write"
          ELSE pc' = "panicked" /\ UNCHANGED wire
    /\ UNCHANGED <<request, handler, http_req, value, settings, result, res, posts, outparam, codec, reader, response_builder>>

\* ResponseOutparam::send: out.blocking_write_and_flush(&body)?; drop(out)
SendWrite ==
    /\ pc = "send_write"
    /\ \E ok \in BOOLEAN :
          IF ok
          THEN /\ wire' = [wire EXCEPT !.written = res.body, !.flushed = TRUE, !.stream = "dropped"]
               /\ pc' = "send_finish"
          ELSE wire' = [wire EXCEPT !.stream = "dropped"] /\ pc' = "panicked"
    /\ UNCHANGED <<request, handler, http_req, value, settings, result, res, posts, outparam, codec, reader, response_builder>>

\* ResponseOutparam::send: OutgoingBody::finish(resp_body, None)?
SendFinish ==
    /\ pc = "send_finish"
    /\ \E ok \in BOOLEAN :
          IF ok
          THEN wire' = [wire EXCEPT !.finished = TRUE] /\ pc' = "done"
          ELSE pc' = "panicked" /\ UNCHANGED wire
    /\ UNCHANGED <<request, handler, http_req, value, settings, result, res, posts, outparam, codec, reader, response_builder>>

Next ==
    \/ TryIntoRequest
    \/ DecodeBody
    \/ RunRelayHandler
    \/ RunCustomHandler
    \/ EncodeResponse
    \/ SendBody
    \/ SendSet
    \/ SendWriter
    \/ SendWrite
    \/ SendFinish

Spec == Init /\ [][Next]_vars

\* The invocation has returned or trapped.
Ended == pc \in {"done", "panicked"}

(***************************************************************************)
(* Settings::new as a function of the request's headers                    *)
(***************************************************************************)
\* Longest list of header entries drawn for Settings::new.
MaxHeaders == 2

SeqsUpTo(set, n) == UNION {[1..k -> set] : k \in 0..n}

SettingsEntries ==
    { <<SettingsHeader, GoodSettings(WebhookA)>>,
      <<"X-Edgee-Component-Settings", GoodSettings(WebhookB)>>,
      <<SettingsHeader, <<P("{"), S("not_webhook_url"), P(":"), S("value"), P("}")>> >>,
      <<SettingsHeader, <<Raw("not a json")>> >>,
      <<SettingsHeader, <<P("{"), S("webhook_url"), P(":"), N("42"), P("}")>> >>,
      <<SettingsHeader, <<P("{"), S("webhook_url"), P(":"), S(""), P(","), W, S("x"), P(":"), S("y"), P("}")>> >>,
      <<SettingsHeader, <<P("["), S("webhook_url"), P("]")>> >>,
      <<SettingsHeader, <<S("webhook_url")>> >>,
      <<SettingsHeader, RepeatedKeySettings(WebhookB)>>,
      <<SettingsHeader, GoodSettings("https://hooks.example/caf[c3][a9]")>>,
      <<"Content-Type", ApplicationJson>> }

NoRequest ==
    [method |-> "Get", scheme |-> None, authority |-> None, path_with_query |-> None,
     headers |-> <<>>, consume_ok |-> TRUE, body |-> Stream(<<Closed>>)]

InitSettings ==
    /\ reader = NoReader
    /\ pc = "settings_new"
    /\ \E hs \in SeqsUpTo(SettingsEntries, MaxHeaders) : request = [NoRequest EXCEPT !.headers = hs]
    /\ handler = "relay"
    /\ http_req = NoHttpReq
    /\ value = NoValue
    /\ settings = NoSettings
    /\ result = NoResult
    /\ res = NoResponse
    /\ posts = <<>>
    /\ outparam = <<>>
    /\ wire = NoWire
    /\ response_builder = ResponseBuilderNew
    /\ codec = NoCodec

\* Settings::new(&headers), headers being the HeaderMap of the entries
ApplySettingsNew ==
    /\ pc = "settings_new"
    /\ LET hs == HeaderMapTryFrom(request.headers) IN
       /\ http_req' = [ok |-> hs.ok, err |-> "", headers |-> hs.map]
       /\ settings' = SettingsNew(hs.map)
    /\ pc' = "settings_done"
    /\ UNCHANGED <<request, handler, value, result, res, posts, outparam, wire, codec, reader, response_builder>>

NextSettings == ApplySettingsNew

SpecSettings == InitSettings /\ [][NextSettings]_vars

(***************************************************************************)
(* IntoBody::extend_response_parts (src/helpers/body.rs)                   *)
(***************************************************************************)
TextHtml == <<Raw("text/html; charset=utf-8")>>

\* The IntoBody implementors: T itself, or Option<T> holding None or Some(T).
Codec(opt, kind) == [opt |-> opt, kind |-> kind]

Codecs ==
    {Codec("bare", k) : k \in {"Unit", "Bytes", "String", "Json", "RawJson", "Html"}}
        \cup {Codec("none", k) : k \in {"Json", "Html"}}
        \cup {Codec("some", k) : k \in {"Json", "Html", "Bytes"}}

\* Mutant of JsonExtendResponseParts: insert instead of entry().or_insert().
JsonExtendResponsePartsOverwrite(parts) ==
    [parts EXCEPT !.headers = HeaderMapInsert(@, ContentType, ApplicationJson)]

\* impl IntoBody for Json<T>: extend_response_parts
JsonExtendResponseParts(parts) ==
    [parts EXCEPT !.headers = HeaderMapEntryOrInsert(@, ContentType, ApplicationJson)]

\* impl IntoBody for Html<T>: extend_response_parts
HtmlExtendResponseParts(parts) ==
    [parts EXCEPT !.headers = HeaderMapEntryOrInsert(@, ContentType, TextHtml)]

\* extend_response_parts by implementor; RawJson calls Json(())'s, the
\* trait's default body is empty, Option calls the value's only on Some.
ExtendResponseParts(c, parts) ==
    IF c.opt = "none" THEN parts
    ELSE CASE c.kind = "Json" -> JsonExtendResponseParts(parts)
           [] c.kind = "RawJson" -> JsonExtendResponseParts(parts)
           [] c.kind = "Html" -> HtmlExtendResponseParts(parts)
           [] OTHER -> parts

\* Longest list of headers a response carries before the codec extends it.
MaxPartsHeaders == 2

PartsEntries ==
    { <<ContentType, TextPlain>>, <<ContentType, ApplicationJson>>,
      <<"x-trace", <<Raw("t1")>> >>, <<"x-trace", <<Raw("t2")>> >> }

RECURSIVE AppendAll(_, _)
AppendAll(entries, map) ==
    IF entries = <<>> THEN map
    ELSE AppendAll(Tail(entries), HeaderMapAppend(map, Head(entries)[1], Head(entries)[2]))

InitCodec ==
    /\ reader = NoReader
    /\ pc = "codec"
    /\ request = NoRequest
    /\ handler = "relay"
    /\ http_req = NoHttpReq
    /\ value = NoValue
    /\ settings = NoSettings
    /\ result = NoResult
    /\ res = NoResponse
    /\ posts = <<>>
    /\ outparam = <<>>
    /\ wire = NoWire
    /\ response_builder = ResponseBuilderNew
    /\ \E c \in Codecs, es \in SeqsUpTo(PartsEntries, MaxPartsHeaders), st \in {200, 404} :
          codec = [NoCodec EXCEPT !.c = c,
                                  !.parts = [status |-> st, headers |-> AppendAll(es, HeaderMapNew)]]

\* value.extend_response_parts(&mut parts)
ApplyExtendResponseParts ==
    /\ pc = "codec"
    /\ codec.op = "none"
    /\ codec' = [codec EXCEPT !.op = "extend_response_parts",
                              !.out = ExtendResponseParts(codec.c, codec.parts)]
    /\ UNCHANGED <<pc, request, handler, http_req, value, settings, result, res, posts,
                   outparam, wire, reader, response_builder>>

NextCodec == ApplyExtendResponseParts

SpecCodec == InitCodec /\ [][NextCodec]_vars

(***************************************************************************)
(* The codecs as functions of their inputs: from_data on a buffer, and     *)
(* into_body followed by from_data of the same type.                       *)
(***************************************************************************)
Decoders ==
    {Decoder(o, k, "") : o \in {"bare", "option"}, k \in {"Unit", "Bytes", "String", "IncomingBody"}}
        \cup {Decoder(o, "Json", ty) : o \in {"bare", "option"}, ty \in DataTypes}

TestBytes(v) == <<P("{"), S("a"), P(":"), v, P("}")>>

BodyBuffers ==
    { <<>>,
      <<Raw("foo")>>,
      <<Raw("[ff][fe]")>>,
      <<Raw("not a json")>>,
      <<P("{"), S("a")>>,
      TestBytes(N("42")),
      TestBytes(S("x")),
      <<P("{"), S("a"), P(":"), N("1"), P(","), W, S("x"), P(":"), L("true"), P("}")>>,
      <<P("["), N("42"), P("]")>>,
      <<P("{"), S("a"), P(":"), N("1"), P(","), S("a"), P(":"), N("42"), P("}")>>,
      <<P("{"), S("a"), P(":"), S("x"), P(","), S("a"), P(":"), N("42"), P("}")>>,
      <<L("null")>>,
      <<N("42")>>,
      <<N("1.5")>>,
      <<S("foo")>> }

\* The values Json<T> is given, by data type.
DataValues ==
    { <<"Value", JObj({<<"a", JNum("1")>>, <<"x", JArr(<<JStr("hi"), JNull, JBool(TRUE)>>)>>})>>,
      <<"Value", JStr("")>>,
      <<"Value", JNull>>,
      <<"Test", StructOf({<<"a", JNum("42")>>})>>,
      <<"f64", JNum("1.5")>>,
      <<"f64", JNum("42.0")>>,
      <<"f64", JNum("NaN")>>,
      <<"Option<Option<i32>>", OptNone>>,
      <<"Option<Option<i32>>", OptSome(OptNone)>>,
      <<"Option<Option<i32>>", OptSome(OptSome(JNum("1")))>>,
      <<"()", UnitValue>>,
      <<"Option<Value>", OptNone>>,
      <<"Option<Value>", OptSome(JNull)>>,
      <<"Option<Value>", OptSome(JStr("hi"))>>,
      <<"Option<()>", OptNone>>,
      <<"Option<()>", OptSome(UnitValue)>> }

\* The bare typed bodies into_body is given.
BareBodies ==
    { BodyValue("bare", "Unit", "", <<>>, JNull),
      BodyValue("bare", "Bytes", "", <<Raw("bar")>>, JNull),
      BodyValue("bare", "Bytes", "", <<>>, JNull),
      BodyValue("bare", "String", "", <<Raw("abc")>>, JNull),
      BodyValue("bare", "String", "", <<>>, JNull),
      BodyValue("bare", "RawJson", "", TestBytes(N("1")), JNull),
      BodyValue("bare", "Html", "", <<Raw("<h1>hi</h1>")>>, JNull) }
        \cup {BodyValue("bare", "Json", d[1], <<>>, d[2]) : d \in DataValues}

\* T, Some(T) and None for every T.
Bodies ==
    BareBodies \cup {[v EXCEPT !.opt = "some"] : v \in BareBodies}
               \cup {BodyValue("none", v.kind, v.ty, <<>>, JNull) : v \in BareBodies}

\* The kinds that implement FromBody as well as IntoBody.
Decodable == {"Unit", "Bytes", "String", "Json"}

InitBody ==
    /\ reader = NoReader
    /\ pc = "body"
    /\ request = NoRequest
    /\ handler = "relay"
    /\ http_req = NoHttpReq
    /\ value = NoValue
    /\ settings = NoSettings
    /\ result = NoResult
    /\ res = NoResponse
    /\ posts = <<>>
    /\ outparam = <<>>
    /\ wire = NoWire
    /\ response_builder = ResponseBuilderNew
    /\ \/ \E dec \in Decoders, data \in BodyBuffers :
             codec = [NoCodec EXCEPT !.op = "data", !.dec = dec, !.data = data]
       \/ \E v \in Bodies, ser \in BOOLEAN :
             codec = [NoCodec EXCEPT !.op = "value", !.v = v, !.ser = ser]

\* T::from_data(data)
ApplyFromData ==
    /\ pc = "body"
    /\ codec.op = "data"
    /\ codec' = [codec EXCEPT !.op = "from_data", !.got = FromData(codec.dec, codec.data)]
    /\ UNCHANGED <<pc, request, handler, http_req, value, settings, result, res, posts,
                   outparam, wire, reader, response_builder>>

\* value.into_body()
ApplyIntoBody ==
    /\ pc = "body"
    /\ codec.op = "value"
    /\ codec' = [codec EXCEPT !.op = "into_body", !.enc = IntoBody(codec.v, codec.ser)]
    /\ UNCHANGED <<pc, request, handler, http_req, value, settings, result, res, posts,
                   outparam, wire, reader, response_builder>>

\* T::from_data(value.into_body()?), T the type of the value
ApplyFromDataOfBody ==
    /\ pc = "body"
    /\ codec.op = "into_body"
    /\ codec.enc.ok
    /\ codec.v.kind \in Decodable
    /\ codec' = [codec EXCEPT !.op = "round_trip", !.dec = DecoderOf(codec.v),
                              !.data = codec.enc.bytes,
                              !.got = FromData(DecoderOf(codec.v), codec.enc.bytes)]
    /\ UNCHANGED <<pc, request, handler, http_req, value, settings, result, res, posts,
                   outparam, wire, reader, response_builder>>

NextBody ==
    \/ ApplyFromData
    \/ ApplyIntoBody
    \/ ApplyFromDataOfBody

SpecBody == InitBody /\ [][NextBody]_vars

(***************************************************************************)
(* IncomingBody::read and parse_body over every stream of up to MaxEvents  *)
(* events                                                                  *)
(***************************************************************************)
\* Longest list of events a stream gives before it idles.
MaxEvents == 3

StreamEvents == {Data(<<Raw("ab")>>), Data(<<Raw("cd")>>), Data(<<>>), Closed, Failed}

Readers == {"read", "parse_body"}

InitRead ==
    /\ pc = "read"
    /\ \E evs \in SeqsUpTo(StreamEvents, MaxEvents), has \in BOOLEAN, consume \in BOOLEAN :
          request = [NoRequest EXCEPT !.consume_ok = consume,
                                      !.body = [has_stream |-> has, events |-> evs]]
    /\ handler = "relay"
    /\ http_req = NoHttpReq
    /\ value = NoValue
    /\ settings = NoSettings
    /\ result = NoResult
    /\ res = NoResponse
    /\ posts = <<>>
    /\ outparam = <<>>
    /\ wire = NoWire
    /\ response_builder = ResponseBuilderNew
    /\ codec = NoCodec
    /\ \E fn \in Readers : reader = [NoReader EXCEPT !.fn = fn]
    /\ reader.fn = "read" => request.consume_ok

\* self.stream() of IncomingBody::read, on the body a request gave when it
\* was consumed; req.consume() and then stream.stream() of parse_body
OpenStream ==
    /\ pc = "read"
    /\ reader.state = "start"
    /\ reader' = IF reader.fn = "parse_body" /\ ~request.consume_ok
                 THEN [reader EXCEPT !.state = "returned", !.ok = FALSE,
                                     !.err = "Failed to consume request stream"]
                 ELSE IF request.body.has_stream
                 THEN [reader EXCEPT !.state = "reading"]
                 ELSE [reader EXCEPT !.state = "returned", !.ok = FALSE,
                                     !.err = IF reader.fn = "read"
                                             THEN "Missing request body stream"
                                             ELSE "Failed to get request stream: "]
    /\ UNCHANGED <<pc, request, handler, http_req, value, settings, result, res, posts,
                   outparam, wire, codec, response_builder>>

\* IncomingBody::read: one iteration of the loop
ReadStep ==
    /\ pc = "read"
    /\ reader.fn = "read"
    /\ reader.state = "reading"
    /\ reader' = ReadNext(reader, StreamRead(request.body, reader.pos),
                          Advance(request.body, reader.pos))
    /\ UNCHANGED <<pc, request, handler, http_req, value, settings, result, res, posts,
                   outparam, wire, codec, response_builder>>

\* parse_body: one iteration of the loop
ParseBodyStep ==
    /\ pc = "read"
    /\ reader.fn = "parse_body"
    /\ reader.state = "reading"
    /\ reader' = ParseBodyNext(reader, StreamRead(request.body, reader.pos),
                               Advance(request.body, reader.pos))
    /\ UNCHANGED <<pc, request, handler, http_req, value, settings, result, res, posts,
                   outparam, wire, codec, response_builder>>

NextRead ==
    \/ OpenStream
    \/ ReadStep
    \/ ParseBodyStep

SpecRead == InitRead /\ [][NextRead]_vars

\* The loop runs on: an enabled iteration is eventually taken.
SpecReadFair == SpecRead /\ WF_vars(NextRead)

(***************************************************************************)
(* helpers::run: the adapter for handlers of http::Request<IncomingBody>   *)
(* returning an http::Response<B>, Bytes: From<B>                          *)
(***************************************************************************)
\* ERROR_PAGE: the bytes of public/error.html, compiled in.
ErrorPage == <<Raw("public/error.html")>>

\* run: the response built when the handler returns Err.
RunErrorResponse == Response(500, HeaderMapNew, ErrorPage)

\* Bytes::from(B), B a String holding the text.
BytesFrom(b) == IF b.s = "" THEN <<>> ELSE <<Raw(b.s)>>

\* run: res.map(Into::into)
RunMapIntoBytes(hres) == Response(hres.status, hres.headers, BytesFrom(hres.body))

\* The results a handler given to run may return.
PageResults ==
    { HErr("page failure"),
      HErr("Missing 'x-edgee-component-settings' header"),
      HOk(200, <<[name |-> ContentType, vals |-> <<TextHtml>>]>>, JStr("<h1>hi</h1>"), TRUE),
      HOk(404, HeaderMapNew, JStr(""), TRUE),
      HOk(200, <<[name |-> "x-trace", vals |-> <<(<<Raw("t1")>>), (<<Raw("t2")>>)>>],
                 [name |-> ContentType, vals |-> <<TextPlain>>]>>, JStr("ok"), TRUE) }

InitRun ==
    /\ reader = NoReader
    /\ pc = "run_start"
    /\ \E line \in RequestLines, hs \in RequestHeaders, consume \in BOOLEAN :
          request = [method |-> line.method, scheme |-> line.scheme,
                     authority |-> line.authority, path_with_query |-> line.path_with_query,
                     headers |-> hs, consume_ok |-> consume, body |-> Stream(<<Closed>>)]
    /\ handler = "page"
    /\ http_req = NoHttpReq
    /\ value = NoValue
    /\ settings = NoSettings
    /\ result = NoResult
    /\ res = NoResponse
    /\ posts = <<>>
    /\ outparam = <<>>
    /\ wire = NoWire
    /\ response_builder = ResponseBuilderNew
    /\ codec = NoCodec

\* run: req.try_into().unwrap()
RunTryIntoRequest ==
    /\ pc = "run_start"
    /\ http_req' = HttpRequestTryFrom(request)
    /\ pc' = IF http_req'.ok THEN "run_page_handler" ELSE "panicked"
    /\ UNCHANGED <<request, handler, value, settings, result, res, posts, outparam, wire,
                   codec, reader, response_builder>>

\* run: "Run handler"; the response handed to send is the handler's, its
\* body turned into Bytes, or the error page
RunPageHandler ==
    /\ pc = "run_page_handler"
    /\ \E r \in PageResults :
          /\ result' = r
          /\ res' = IF r.ok THEN RunMapIntoBytes(r) ELSE RunErrorResponse
    /\ pc' = "send_body"
    /\ UNCHANGED <<request, handler, http_req, value, settings, posts, outparam, wire,
                   codec, reader, response_builder>>

NextRun ==
    \/ RunTryIntoRequest
    \/ RunPageHandler
    \/ SendBody
    \/ SendSet
    \/ SendWriter
    \/ SendWrite
    \/ SendFinish

SpecRun == InitRun /\ [][NextRun]_vars

(***************************************************************************)
(* The ways a response reaches the host: ResponseOutparam::send and        *)
(* ResponseOutparam::error (src/helpers/extensions.rs), and                *)
(* ResponseBuilder::build and error_response (src/helpers.rs)              *)
(***************************************************************************)
\* Most setters called on one builder.
MaxBuilderCalls == 2

\* The responses send is given.
SendResponses ==
    { HandleJsonError("Invalid JSON request"),
      RunErrorResponse,
      Response(204, HeaderMapNew, <<>>),
      Response(200, <<[name |-> "x-trace", vals |-> <<(<<Raw("t1")>>), (<<Raw("t2")>>)>>],
                      [name |-> ContentType, vals |-> <<TextPlain>>]>>, <<Raw("ok")>>) }

\* The variants of ErrorCode given to ResponseOutparam::error.
ErrorCodes == {"InternalError", "HttpRequestDenied"}

\* The value ResponseOutparam::set is given by ResponseOutparam::error.
OutparamErr(code) == [status |-> 0, headers |-> <<>>, err |-> code]

BuilderHeaderNames == {"content-type", "Content-Type", "x-trace", "bad name"}

BuilderHeaderValues == {ApplicationJson, TextPlain, <<Raw("line[0a]break")>>}

BuilderStatusCodes == {204, 400}

BuilderBodies == {<<>>, <<Raw("hi")>>}

ErrorMessages == {"boom", "Invalid JSON request"}

InitSend ==
    /\ reader = NoReader
    /\ \/ pc = "send_body" /\ res \in SendResponses
       \/ pc \in {"outparam_error", "builder"} /\ res = NoResponse
    /\ request = NoRequest
    /\ handler = "relay"
    /\ http_req = NoHttpReq
    /\ value = NoValue
    /\ settings = NoSettings
    /\ result = NoResult
    /\ posts = <<>>
    /\ outparam = <<>>
    /\ wire = NoWire
    /\ response_builder = ResponseBuilderNew
    /\ codec = NoCodec

\* ResponseOutparam::error
OutparamError ==
    /\ pc = "outparam_error"
    /\ \E code \in ErrorCodes : outparam' = Append(outparam, OutparamErr(code))
    /\ pc' = "done"
    /\ UNCHANGED <<request, handler, http_req, value, settings, result, res, posts, wire,
                   codec, reader, response_builder>>

\* ResponseBuilder::set_header
SetHeader ==
    /\ pc = "builder"
    /\ response_builder.calls < MaxBuilderCalls
    /\ \E key \in BuilderHeaderNames, v \in BuilderHeaderValues :
          response_builder' = SetHeaderOf(response_builder, key, v)
    /\ UNCHANGED <<pc, request, handler, http_req, value, settings, result, res, posts,
                   outparam, wire, codec, reader>>

\* ResponseBuilder::set_status_code
SetStatusCode ==
    /\ pc = "builder"
    /\ response_builder.calls < MaxBuilderCalls
    /\ \E status_code \in BuilderStatusCodes : response_builder' = SetStatusCodeOf(response_builder, status_code)
    /\ UNCHANGED <<pc, request, handler, http_req, value, settings, result, res, posts,
                   outparam, wire, codec, reader>>

\* ResponseBuilder::set_body
SetBody ==
    /\ pc = "builder"
    /\ response_builder.calls < MaxBuilderCalls
    /\ \E body \in BuilderBodies : response_builder' = SetBodyOf(response_builder, body)
    /\ UNCHANGED <<pc, request, handler, http_req, value, settings, result, res, posts,
                   outparam, wire, codec, reader>>

\* error_response, up to its call of build
ErrorResponse ==
    /\ pc = "builder"
    /\ response_builder = ResponseBuilderNew
    /\ \E msg \in ErrorMessages, status_code \in BuilderStatusCodes :
          response_builder' = ErrorResponseBuilder(msg, status_code)
    /\ pc' = "build_body"
    /\ UNCHANGED <<request, handler, http_req, value, settings, result, res, posts,
                   outparam, wire, codec, reader>>

\* ResponseBuilder::build: OutgoingResponse::new, set_status_code, body().unwrap()
BuildBody ==
    /\ pc \in {"builder", "build_body"}
    /\ \E ok \in BOOLEAN :
          IF ok
          THEN /\ wire' = [wire EXCEPT !.response = [status |-> response_builder.status_code,
                                                     headers |-> response_builder.headers]]
               /\ pc' = "build_set"
          ELSE pc' = "panicked" /\ UNCHANGED wire
    /\ UNCHANGED <<request, handler, http_req, value, settings, result, res, posts,
                   outparam, codec, reader, response_builder>>

\* ResponseBuilder::build: ResponseOutparam::set(resp, Ok(resp_tx))
BuildSet ==
    /\ pc = "build_set"
    /\ outparam' = Append(outparam, wire.response)
    /\ pc' = "build_writer"
    /\ UNCHANGED <<request, handler, http_req, value, settings, result, res, posts, wire,
                   codec, reader, response_builder>>

\* ResponseBuilder::build: body.write().unwrap()
BuildWriter ==
    /\ pc = "build_writer"
    /\ \E ok \in BOOLEAN :
          IF ok
          THEN wire' = [wire EXCEPT !.stream = "open"] /\ pc' = "build_write"
          ELSE pc' = "panicked" /\ UNCHANGED wire
    /\ UNCHANGED <<request, handler, http_req, value, settings, result, res, posts,
                   outparam, codec, reader, response_builder>>

\* ResponseBuilder::build: stream.write(body_content).unwrap() when there is
\* a body, then drop(stream).  A panic leaves the stream as the panic
\* strategy of the build does: dropped by unwinding, or still open.
BuildWrite ==
    /\ pc = "build_write"
    /\ \/ /\ response_builder.body_content.some
          /\ wire' = [wire EXCEPT !.written = response_builder.body_content.v, !.stream = "dropped"]
          /\ pc' = "build_finish"
       \/ /\ ~response_builder.body_content.some
          /\ wire' = [wire EXCEPT !.stream = "dropped"]
          /\ pc' = "build_finish"
       \/ /\ response_builder.body_content.some
          /\ \E unwinds \in BOOLEAN :
                wire' = [wire EXCEPT !.stream = IF unwinds THEN "dropped" ELSE "open"]
          /\ pc' = "panicked"
    /\ UNCHANGED <<request, handler, http_req, value, settings, result, res, posts,
                   outparam, codec, reader, response_builder>>

\* ResponseBuilder::build: let _ = OutgoingBody::finish(body, None)
BuildFinish ==
    /\ pc = "build_finish"
    /\ \E ok \in BOOLEAN : wire' = [wire EXCEPT !.finished = ok]
    /\ pc' = "done"
    /\ UNCHANGED <<request, handler, http_req, value, settings, result, res, posts,
                   outparam, codec, reader, response_builder>>

NextSend ==
    \/ SendBody
    \/ SendSet
    \/ SendWriter
    \/ SendWrite
    \/ SendFinish
    \/ OutparamError
    \/ SetHeader
    \/ SetStatusCode
    \/ SetBody
    \/ ErrorResponse
    \/ BuildBody
    \/ BuildSet
    \/ BuildWriter
    \/ BuildWrite
    \/ BuildFinish

SpecSend == InitSend /\ [][NextSend]_vars

(***************************************************************************)
(* Vocabulary of the properties, stated on the raw inputs                  *)
(***************************************************************************)
\* The handler has been called and has returned or panicked.
HandlerRan == value.ok /\ pc \notin {"start", "read_json", "run_handler"}

\* The spellings of the settings header name among the inputs.
SettingsSpellings ==
    {"x-edgee-component-settings", "X-Edgee-Component-Settings", "X-EDGEE-COMPONENT-SETTINGS"}

SettingsIndices(hs) == {i \in 1..Len(hs) : hs[i][1] \in SettingsSpellings}

FirstSettingsValue(hs) ==
    hs[CHOOSE i \in SettingsIndices(hs) : \A j \in SettingsIndices(hs) : i <= j][2]

NoBlanks(bytes) == SelectSeq(bytes, LAMBDA tk : tk.k # "ws")

\* The text is a JSON object whose members all map a string to a string:
\* { "k" : "v" , "k" : "v" ... }
IsStringObject(bytes) ==
    LET t == NoBlanks(bytes)
        n == (Len(t) - 1) \div 4 IN
    \/ t = <<P("{"), P("}")>>
    \/ /\ Len(t) >= 5
       /\ Len(t) = 4 * n + 1
       /\ t[1] = P("{")
       /\ \A j \in 0..(n - 1) :
             /\ t[4 * j + 2].k = "str"
             /\ t[4 * j + 3] = P(":")
             /\ t[4 * j + 4].k = "str"
             /\ t[4 * j + 5] = (IF j = n - 1 THEN P("}") ELSE P(","))

\* Positions of the key's value in the text of a string object.
KeyPositions(bytes, key) ==
    LET t == NoBlanks(bytes) IN
    {i \in 2..Len(t) : i % 4 = 2 /\ t[i] = S(key)}

HasKey(bytes, key) == KeyPositions(bytes, key) # {}

ValueUnder(bytes, key) ==
    LET t == NoBlanks(bytes) IN t[(CHOOSE i \in KeyPositions(bytes, key) : TRUE) + 2].s

\* Every byte of the text is visible ASCII.
IsVisibleAscii(bytes) == \A i \in 1..Len(bytes) : bytes[i].s \notin OpaqueTexts

\* The decoded body is an object whose `message` member is a JSON string.
MessageIsString ==
    value.ok /\ value.val.t = "obj" /\ \E p \in value.val.m : p[1] = "message" /\ p[2].t = "str"

MissingMessage == "Missing 'message' field in request body"

MissingHeader == "Missing 'x-edgee-component-settings' header"

\* The values the sent response lists under the name.
SentValues(name) ==
    {outparam[1].headers[i][2] :
        i \in {j \in 1..Len(outparam[1].headers) : outparam[1].headers[j][1] = name}}

(***************************************************************************)
(* C1. Exactly-once response: when an invocation of Component::handle      *)
(* (run_json) has ended, whatever the request, the ResponseOutparam has    *)
(* been assigned exactly once.                                             *)
(***************************************************************************)
C1_ExactlyOnceResponse == Ended => Len(outparam) = 1

(***************************************************************************)
(* C2. When the outbound POST fails at the transport level, the relay      *)
(* handler returns an error carrying the transport cause, the invocation   *)
(* does not crash, the POST was attempted exactly once, and when the       *)
(* invocation has ended exactly one (failure) response has been delivered. *)
(***************************************************************************)
C2_TransportFailureReported ==
    (handler = "relay" /\ posts # <<>> /\ ~posts[1].outcome.ok) =>
        /\ pc # "panicked"
        /\ ~result.ok
        /\ result.err = posts[1].outcome.err
        /\ Len(posts) = 1
        /\ (Ended => Len(outparam) = 1 /\ outparam[1].status = 500)

(***************************************************************************)
(* C3. With valid settings, a decoded body whose `message` is absent or is *)
(* not a JSON string makes handle_json_request return the error "Missing   *)
(* 'message' field in request body" without issuing the POST; a POST is    *)
(* issued only when `message` is a string.  (Stated for the runs in which  *)
(* the outbound client, if called, answers.)                               *)
(***************************************************************************)
C3_NonStringMessageRejected ==
    (/\ handler = "relay" /\ HandlerRan /\ settings.tag = "ok" /\ ~MessageIsString
     /\ \A i \in 1..Len(posts) : posts[i].outcome.ok) =>
        /\ ~result.ok
        /\ result.err = MissingMessage
        /\ posts = <<>>

(***************************************************************************)
(* C4. With valid settings and a string `message`, for every status s the  *)
(* outbound client returns, the handler's output has status s and body     *)
(* {"ok": s = 200}; the response run_json delivers carries status s,       *)
(* Content-Type application/json and, once written, the body bytes         *)
(* {"ok":true} or {"ok":false}.                                            *)
(***************************************************************************)
C4_StatusMapping ==
    (handler = "relay" /\ posts # <<>> /\ posts[1].outcome.ok /\ MessageIsString) =>
        LET s == posts[1].outcome.status IN
        /\ result.ok
        /\ result.status = s
        /\ result.body = JObj({<<"ok", JBool(s = 200)>>})
        /\ (outparam # <<>> =>
               /\ outparam[1].status = s
               /\ SentValues("content-type") = {<<Raw("application/json")>>})
        /\ (pc = "done" =>
               wire.written = <<P("{"), S("ok"), P(":"), L(IF s = 200 THEN "true" ELSE "false"), P("}")>>)

C4_Witness ==
    /\ pc = "done"
    /\ handler = "relay"
    /\ MessageIsString
    /\ posts # <<>>
    /\ posts[1].outcome = PostOk(404)
    /\ outparam[1].status = 404
    /\ wire.written = <<P("{"), S("ok"), P(":"), L("false"), P("}")>>

(***************************************************************************)
(* C6. When the request carries no x-edgee-component-settings header,      *)
(* Settings::new returns the error "Missing 'x-edgee-component-settings'   *)
(* header"; handle_json_request returns that same error (it does not       *)
(* panic), whatever the decoded body, and issues no POST.                  *)
(***************************************************************************)
C6_MissingHeaderError ==
    (handler = "relay" /\ HandlerRan /\ SettingsIndices(request.headers) = {}) =>
        /\ settings = [tag |-> "err", webhook_url |-> "", err |-> MissingHeader]
        /\ ~result.ok
        /\ result.err = MissingHeader
        /\ posts = <<>>
        /\ res.status = 500    \* the handler returned: run_json built the error response

C6_Witness ==
    /\ handler = "relay"
    /\ HandlerRan
    /\ SettingsIndices(request.headers) = {}
    /\ request.headers # <<>>
    /\ ~MessageIsString
    /\ result.err = MissingHeader
    /\ pc = "done"

(***************************************************************************)
(* C10. In run_json's encode step the Content-Type default is merged with  *)
(* insert-if-absent semantics: a Content-Type the handler set is kept,     *)
(* with every other handler-set header, in the response handed to the      *)
(* host; application/json is added only when the handler set none.         *)
(***************************************************************************)
C10_ContentTypeInsertIfAbsent ==
    (result.ok /\ result.serializable /\ pc \notin {"run_handler", "encode"}) =>
        /\ res.status = result.status
        /\ IF \E i \in 1..Len(result.headers) : result.headers[i].name = "content-type"
           THEN res.headers = result.headers
           ELSE res.headers = Append(result.headers,
                                     [name |-> "content-type", vals |-> <<(<<Raw("application/json")>>)>>])

(***************************************************************************)
(* C5 (as claimed). Whenever the settings header, looked up without regard *)
(* to case, holds a JSON object of string-to-string entries with the key   *)
(* webhook_url, Settings::new succeeds and webhook_url is the value under  *)
(* that key.                                                               *)
(***************************************************************************)
C5_ValidSettingsAccepted ==
    (/\ pc = "settings_done"
     /\ SettingsIndices(request.headers) # {}
     /\ IsStringObject(FirstSettingsValue(request.headers))
     /\ HasKey(FirstSettingsValue(request.headers), "webhook_url")) =>
        /\ settings.tag = "ok"
        /\ settings.webhook_url = ValueUnder(FirstSettingsValue(request.headers), "webhook_url")

(***************************************************************************)
(* C5 (amended). Whenever the first value of the settings header, looked   *)
(* up without regard to case, is visible ASCII and holds a JSON object of  *)
(* string-to-string entries with the key webhook_url, Settings::new        *)
(* succeeds and webhook_url is the value under that key.                   *)
(***************************************************************************)
C5_VisibleValidSettingsAccepted ==
    (/\ pc = "settings_done"
     /\ SettingsIndices(request.headers) # {}
     /\ IsVisibleAscii(FirstSettingsValue(request.headers))
     /\ IsStringObject(FirstSettingsValue(request.headers))
     /\ HasKey(FirstSettingsValue(request.headers), "webhook_url")) =>
        /\ settings.tag = "ok"
        /\ settings.webhook_url = ValueUnder(FirstSettingsValue(request.headers), "webhook_url")

C5_Witness ==
    /\ pc = "settings_done"
    /\ Len(request.headers) = 2
    /\ request.headers[1][1] = "Content-Type"
    /\ request.headers[2][1] = "X-Edgee-Component-Settings"
    /\ settings = [tag |-> "ok", webhook_url |-> "https://hooks.example/B", err |-> ""]

(***************************************************************************)
(* C7. A request carrying the settings header more than once,              *)
(* with different bodies, is rejected by Settings::new with an error whose *)
(* message carries the number of values found.  (Stated for values each of *)
(* which Settings::new accepts when it is the only one.)                   *)
(***************************************************************************)
CountBearingMessages == {"Expected exactly one settings header, found 2"}

C7_DuplicateHeaderRejected ==
    (/\ pc = "settings_done"
     /\ \E i, j \in SettingsIndices(request.headers) :
           request.headers[i][2] # request.headers[j][2]
     /\ \A i \in SettingsIndices(request.headers) :
           /\ IsVisibleAscii(request.headers[i][2])
           /\ IsStringObject(request.headers[i][2])
           /\ HasKey(request.headers[i][2], "webhook_url")) =>
        /\ settings.tag = "err"
        /\ settings.err \in CountBearingMessages

(***************************************************************************)
(* C8. Strict missing-key policy: when the settings header's value is not  *)
(* a JSON object of string-to-string entries, or is one without the key    *)
(* webhook_url, Settings::new returns an error; a Settings it returns      *)
(* never holds a webhook_url the header did not give.                      *)
(***************************************************************************)
C8_StrictMissingKey ==
    (pc = "settings_done" /\ SettingsIndices(request.headers) # {}) =>
        LET v == FirstSettingsValue(request.headers) IN
        /\ ~(IsStringObject(v) /\ HasKey(v, "webhook_url")) => settings.tag = "err"
        /\ settings.tag = "ok" => settings.webhook_url = ValueUnder(v, "webhook_url")

C8_Witness ==
    /\ pc = "settings_done"
    /\ Len(request.headers) = 1
    /\ request.headers[1][2] = <<P("{"), S("not_webhook_url"), P(":"), S("value"), P("}")>>
    /\ settings = [tag |-> "err", webhook_url |-> "", err |-> "Missing webhook_url setting"]

(***************************************************************************)
(* C9. Codec header defaults are additive-only: extend_response_parts of   *)
(* Json, RawJson and Html adds Content-Type (application/json,             *)
(* application/json, text/html; charset=utf-8) when the response has no    *)
(* Content-Type and otherwise changes nothing; of Unit, Bytes, String and  *)
(* Option::None it changes nothing.  The status is never changed.          *)
(***************************************************************************)
DefaultContentType(kind) ==
    IF kind = "Html" THEN <<Raw("text/html; charset=utf-8")>> ELSE <<Raw("application/json")>>

C9_HeaderDefaultsAdditive ==
    codec.op = "extend_response_parts" =>
        LET before == codec.parts.headers
            after == codec.out.headers
            setting == codec.c.opt = "bare" /\ codec.c.kind \in {"Json", "RawJson", "Html"}
            silent == codec.c.opt = "none" \/ (codec.c.opt = "bare" /\ codec.c.kind \in {"Unit", "Bytes", "String"})
            has_ct == \E i \in 1..Len(before) : before[i].name = "content-type" IN
        /\ codec.out.status = codec.parts.status
        /\ (silent \/ (setting /\ has_ct)) => after = before
        /\ (setting /\ ~has_ct) =>
              after = Append(before, [name |-> "content-type",
                                      vals |-> <<DefaultContentType(codec.c.kind)>>])

C9_Witness ==
    /\ codec.op = "extend_response_parts"
    /\ codec.c = [opt |-> "bare", kind |-> "Json"]
    /\ codec.parts.headers = <<[name |-> "x-trace", vals |-> <<(<<Raw("t1")>>)>>],
                               [name |-> "content-type", vals |-> <<(<<Raw("text/plain")>>)>>]>>
    /\ codec.out = codec.parts

(***************************************************************************)
(* Vocabulary of the codec properties                                      *)
(***************************************************************************)

OptionDecodesAsT ==
    (codec.op = "from_data" /\ codec.dec.opt = "option") =>
        LET t == BareFromData(codec.dec.kind, codec.dec.ty, codec.data) IN
        IF codec.data = <<>>
        THEN /\ codec.got.ok
             /\ ~codec.got.panic
             /\ codec.got.val = [opt |-> "none", kind |-> codec.dec.kind, ty |-> codec.dec.ty,
                                 bytes |-> <<>>, x |-> JNull]
        ELSE /\ codec.got.ok = t.ok
             /\ codec.got.panic = t.panic
             /\ t.ok => /\ codec.got.val.opt = "some"
                        /\ [codec.got.val EXCEPT !.opt = "bare"] = t.val

\* Buffers that are not a JSON text.
NotJson == {<<>>, <<Raw("foo")>>, <<Raw("[ff][fe]")>>, <<Raw("not a json")>>, <<P("{"), S("a")>>}

\* JSON texts that do not match the data type.
Mismatches ==
    { <<"Test", <<P("{"), S("a"), P(":"), S("x"), P("}")>> >>,
      <<"Test", <<L("null")>> >>,
      <<"Test", <<N("42")>> >>,
      <<"Test", <<S("foo")>> >>,
      <<"f64", <<S("foo")>> >>,
      <<"f64", <<L("null")>> >>,
      <<"f64", <<P("["), N("42"), P("]")>> >>,
      <<"Option<Option<i32>>", <<S("foo")>> >>,
      <<"Option<Option<i32>>", <<N("1.5")>> >>,
      <<"()", <<N("42")>> >>,
      <<"Option<()>", <<N("42")>> >>,
      <<"Option<()>", <<S("foo")>> >> }

JsonRejectsBadBytes ==
    (/\ codec.op = "from_data"
     /\ codec.dec.kind = "Json"
     /\ codec.dec.opt = "bare"
     /\ (codec.data \in NotJson \/ <<codec.dec.ty, codec.data>> \in Mismatches)) =>
        ~codec.got.ok /\ ~codec.got.panic

JsonOf(v) == v.opt = "bare" /\ v.kind = "Json"

RECURSIVE WrittenAsNull(_)
\* The values JSON has no text of their own for: None, (), Value::Null, a
\* float that is NaN or infinite, and Some of any of these.
WrittenAsNull(x) ==
    CASE x.t \in {"none", "unit", "null"} -> TRUE
      [] x.t = "num" -> x.s \in {"NaN", "inf"}
      [] x.t = "some" -> WrittenAsNull(x.a[1])
      [] OTHER -> FALSE

RECURSIVE Lossless(_)
\* The value holds no NaN or infinite float and no Some(x) whose x is written
\* as null.
Lossless(x) ==
    CASE x.t = "some" -> ~WrittenAsNull(x.a[1]) /\ Lossless(x.a[1])
      [] x.t = "struct" -> \A p \in x.m : Lossless(p[2])
      [] x.t = "num" -> x.s \notin {"NaN", "inf"}
      [] OTHER -> TRUE

(***************************************************************************)
(* C11 (as claimed). Option<T>::from_data yields None on an empty buffer,  *)
(* whatever T (T's decoder is not called: no error, no panic); on a        *)
(* non-empty buffer it yields T::from_data's value wrapped in Some and     *)
(* fails exactly when T::from_data fails; and decoding the encoding of     *)
(* Some(x), when that encoding is not empty, gives back Some(x).           *)
(***************************************************************************)
C11_OptionRoundTrip ==
    /\ OptionDecodesAsT
    /\ (codec.op = "round_trip" /\ codec.v.opt = "some" /\ codec.enc.bytes # <<>>) =>
          /\ codec.got.ok
          /\ codec.got.val = codec.v

(***************************************************************************)
(* C11 (amended). As above, except that decoding the non-empty encoding of *)
(* Some(x) gives back Some(x) whenever T's own decoder gives back x for    *)
(* T's encoding of x, and otherwise gives what T's decoder gives, wrapped. *)
(***************************************************************************)
C11_OptionFollowsDecoder ==
    /\ OptionDecodesAsT
    /\ (codec.op = "round_trip" /\ codec.v.opt = "some" /\ codec.enc.bytes # <<>>) =>
          LET x == [codec.v EXCEPT !.opt = "bare"]
              t == BareFromData(x.kind, x.ty, BareIntoBody(x, codec.ser).bytes) IN
          /\ codec.got.ok = t.ok
          /\ (t.ok /\ t.val = x) => codec.got.val = codec.v
          /\ (t.ok /\ t.val # x) => codec.got.val = [t.val EXCEPT !.opt = "some"]

C11_Witness ==
    /\ codec.op = "round_trip"
    /\ codec.v = [opt |-> "some", kind |-> "Json", ty |-> "Test", bytes |-> <<>>,
                  x |-> [t |-> "struct", s |-> "", a |-> <<>>, m |-> {<<"a", JNum("42")>>}]]
    /\ codec.data = <<P("{"), S("a"), P(":"), N("42"), P("}")>>
    /\ codec.got.ok
    /\ codec.got.val = codec.v

HandlerFailed == HandlerRan /\ ~result.ok /\ result.err # ""

ErrorEnvelope(cause) ==
    <<P("{"), S("error"), P(":"), S("Internal server error"), P(","),
      S("message"), P(":"), S(cause), P("}")>>

\* The handler given to run has returned Err.
PageHandlerFailed == pc \notin {"run_start", "run_page_handler"} /\ http_req.ok /\ ~result.ok

HtmlContentTypes == {<<Raw("text/html")>>, <<Raw("text/html; charset=utf-8")>>}

\* The values a list of (name, value) entries carries under the name, in order.
EntryValues(entries, name) ==
    LET sel == SelectSeq(entries, LAMBDA en : Lower(en[1]) = name) IN
    [i \in 1..Len(sel) |-> sel[i][2]]

\* The values a HeaderMap holds under the name.
MapValues(map, name) ==
    IF \E i \in 1..Len(map) : map[i].name = name
    THEN map[CHOOSE i \in 1..Len(map) : map[i].name = name].vals
    ELSE <<>>

\* read_json has returned Err.
DecodeFailed == http_req.ok /\ ~value.ok /\ pc \notin {"start", "read_json"}

(***************************************************************************)
(* C13. When the handler run_json calls returns an error, the response     *)
(* built and sent has status 500, Content-Type application/json and the    *)
(* body {"error":"Internal server error","message":<cause>}, <cause> being *)
(* the text of the handler's error (for a body without `message`: "Missing *)
(* 'message' field in request body"), never a generic text.                *)
(***************************************************************************)
C13_HandlerErrorCause ==
    HandlerFailed =>
        /\ res.status = 500
        /\ res.headers = <<[name |-> "content-type", vals |-> <<(<<Raw("application/json")>>)>>]>>
        /\ res.body = ErrorEnvelope(result.err)
        /\ (outparam # <<>> =>
               /\ outparam[1].status = 500
               /\ SentValues("content-type") = {<<Raw("application/json")>>})
        /\ (pc = "done" => wire.written = ErrorEnvelope(result.err))

(***************************************************************************)
(* C14. When the handler given to run returns an error, the response built *)
(* and sent is the compiled-in error page with status 500 and a            *)
(* Content-Type header of text/html.                                       *)
(***************************************************************************)
C14_ErrorPageIsHtml ==
    PageHandlerFailed =>
        /\ res.status = 500
        /\ res.body = <<Raw("public/error.html")>>
        /\ \E i \in 1..Len(res.headers) :
              res.headers[i].name = "content-type" /\ res.headers[i].vals[1] \in HtmlContentTypes
        /\ (outparam # <<>> =>
               /\ outparam[1].status = 500
               /\ SentValues("content-type") # {}
               /\ SentValues("content-type") \subseteq HtmlContentTypes)
        /\ (pc = "done" => wire.written = <<Raw("public/error.html")>>)

(***************************************************************************)
(* C15. Header multimap preservation: the HeaderMap built from the         *)
(* request's Headers lists, under every name, all the values the request   *)
(* carries under that name, in arrival order; the Headers of the response  *)
(* handed to the host list, under every name, all the values of the        *)
(* http::Response's HeaderMap, in order.  No value of a repeated name is   *)
(* dropped.                                                                *)
(***************************************************************************)
C15_HeaderValuesPreserved ==
    /\ http_req.ok =>
          \A i \in 1..Len(request.headers) :
              MapValues(http_req.headers, Lower(request.headers[i][1]))
                  = EntryValues(request.headers, Lower(request.headers[i][1]))
    /\ outparam # <<>> =>
          \A i \in 1..Len(res.headers) :
              EntryValues(outparam[1].headers, res.headers[i].name) = res.headers[i].vals

(***************************************************************************)
(* C16. When the request body does not decode as JSON, run_json goes from  *)
(* the decode step straight to sending the error response: the handler is  *)
(* never called (no settings are read, no result exists, no POST is        *)
(* issued), at most one response is sent, and it has status 500,           *)
(* Content-Type application/json and the error field "Internal server      *)
(* error".                                                                 *)
(***************************************************************************)
C16_DecodeFailureSkipsHandler ==
    DecodeFailed =>
        /\ pc \in {"send_body", "send_set", "send_writer", "send_write", "send_finish",
                   "done", "panicked"}
        /\ settings.tag = "none"
        /\ result = [ok |-> FALSE, err |-> "", status |-> 0, headers |-> <<>>, body |-> JNull,
                     serializable |-> TRUE]
        /\ posts = <<>>
        /\ res.status = 500
        /\ res.headers = <<[name |-> "content-type", vals |-> <<(<<Raw("application/json")>>)>>]>>
        /\ Len(res.body) = 9
        /\ SubSeq(res.body, 1, 5) = <<P("{"), S("error"), P(":"), S("Internal server error"), P(",")>>
        /\ Len(outparam) <= 1
        /\ (outparam # <<>> =>
               /\ outparam[1].status = 500
               /\ SentValues("content-type") = {<<Raw("application/json")>>})
        /\ (pc = "done" => Len(outparam) = 1 /\ wire.written = res.body)

C16_Witness ==
    /\ pc = "done"
    /\ request.body.events = <<Data(<<Raw("not a json")>>), Closed>>
    /\ request.headers # <<>>
    /\ handler = "relay"
    /\ DecodeFailed
    /\ Len(outparam) = 1
    /\ wire.written = <<P("{"), S("error"), P(":"), S("Internal server error"), P(","),
                        S("message"), P(":"), S("Invalid JSON request"), P("}")>>

(***************************************************************************)
(* Vocabulary of the body-read properties                                  *)
(***************************************************************************)

RECURSIVE ConcatFrames(_)
\* The data of the events, in order.
ConcatFrames(evs) == IF evs = <<>> THEN <<>> ELSE Head(evs).bytes \o ConcatFrames(Tail(evs))

\* The events the reader has been given by the stream so far.
Received == SubSeq(request.body.events, 1, reader.pos)

Returned == reader.state = "returned"

\* The function is given the stream of the body: the request could be
\* consumed and the body has its stream.
StreamGiven == request.consume_ok /\ request.body.has_stream

\* What the claim says of the result, whenever the function has returned:
\* Ok holds the concatenation of everything received, in order; Closed gives
\* Ok (an empty buffer if nothing came before); another error gives Err.
ReadResultComplete ==
    (Returned /\ StreamGiven) =>
        /\ reader.ok => reader.bytes = ConcatFrames(Received)
        /\ (reader.pos >= 1 /\ Received[reader.pos].ev = "closed") => reader.ok
        /\ (reader.pos >= 1 /\ Received[reader.pos].ev = "failed") => ~reader.ok /\ reader.err # ""
        /\ (reader.pos >= 1 /\ Received[1].ev = "closed") =>
              reader.ok /\ reader.bytes = <<>> /\ reader.pos = 1

\* Without a stream to read, the result is an error.
NoStreamIsError == (Returned /\ ~StreamGiven) => ~reader.ok /\ reader.pos = 0

\* The stream reports Closed or an error at some point.
StreamEnds == \E i \in 1..Len(request.body.events) : request.body.events[i].ev \in {"closed", "failed"}

ReturnsAtEmptyChunk ==
    (StreamGiven /\ \E i \in 1..reader.pos : Received[i] = Data(<<>>)) => Returned

ReturnsOnlyAtEnd ==
    StreamGiven =>
        /\ (Returned /\ reader.fn = "read") =>
              /\ reader.pos >= 1
              /\ Received[reader.pos].ev \in {"closed", "failed"}
        /\ (Returned /\ reader.fn = "parse_body") =>
              \/ reader.pos >= 1 /\ Received[reader.pos].ev \in {"closed", "failed"}
              \/ reader.pos >= 1 /\ Received[reader.pos] = Data(<<>>)
              \/ reader.pos = Len(request.body.events)
        /\ \A i \in 1..(reader.pos - 1) :
              /\ Received[i].ev = "data"
              /\ reader.fn = "parse_body" => Received[i].bytes # <<>>
        /\ reader.state = "reading" =>
              /\ \A i \in 1..reader.pos : Received[i].ev = "data"
              /\ reader.bytes = ConcatFrames(Received)

(***************************************************************************)
(* C17 (as claimed). IncomingBody::read and parse_body return once the     *)
(* stream gives an empty chunk or reports Closed, and they always          *)
(* eventually return; the result is the concatenation of all chunks        *)
(* received, in order; Closed before any data gives an empty buffer and    *)
(* no error; any other stream error gives an error.                        *)
(***************************************************************************)
C17_ReadEndsAtEndOfData ==
    /\ [](ReadResultComplete /\ NoStreamIsError /\ ReturnsAtEmptyChunk)
    /\ <>Returned

(***************************************************************************)
(* C17 (amended). IncomingBody::read returns only when the stream reports  *)
(* Closed or an error: an empty chunk does not end it, and it eventually   *)
(* returns provided the stream eventually reports one of the two.          *)
(* parse_body returns at the first empty chunk as well, hence always.  The *)
(* result of both is as claimed.                                           *)
(***************************************************************************)
C17_ReadEndsAtClosed ==
    /\ [](ReadResultComplete /\ NoStreamIsError /\ ReturnsOnlyAtEnd)
    /\ (reader.fn = "parse_body" \/ ~StreamGiven \/ StreamEnds) ~> Returned

C17_Witness ==
    /\ reader.fn = "read"
    /\ request.body.has_stream
    /\ request.body.events = <<Data(<<>>), Data(<<Raw("ab")>>), Closed>>
    /\ Returned
    /\ reader.ok
    /\ reader.bytes = <<Raw("ab")>>

(***************************************************************************)
(* C18. Response stream release on every exit path of                      *)
(* ResponseOutparam::send: the body stream is opened and written only      *)
(* after the response sink has been assigned, and once the sink has been   *)
(* assigned, whichever way send is left (the writer not obtained, the      *)
(* write or flush failing, or success), the write stream has been dropped  *)
(* and OutgoingBody::finish has completed when the invocation ends.        *)
(***************************************************************************)
C18_StreamReleasedOnEveryPath ==
    /\ (wire.stream # "none" \/ wire.written # <<>> \/ wire.finished) => Len(outparam) = 1
    /\ (Ended /\ outparam # <<>> /\ "err" \notin DOMAIN outparam[1]) =>
          wire.stream = "dropped" /\ wire.finished

====
